---- MODULE Spec2Model ----
(***************************************************************************)
(* FinSmart AI inference layer: the versioned artifact store               *)
(* (app/services/artifacts.py), the training and rebuild scripts that      *)
(* write to it (scripts/train_all.py, scripts/rebuild_merchants.py), and   *)
(* the lifecycle of the category classifier and the anomaly scorer         *)
(* (app/services/categoriser.py, app/services/anomalies.py).               *)
(***************************************************************************)
EXTENDS Integers, Sequences, FiniteSets, TLC

VARIABLES
    clock,      \* wall clock read by datetime.now(), in whole seconds
    store,      \* base_dir: version directory name -> the files it holds
    lastCall,   \* the last ArtifactManager call: operation, arguments, outcome
    manager,    \* the ArtifactManager instance of the direct calls: the
                \* fields _artifacts and _current_version
    pc,         \* train_all run -> the step it is about to take
    runVersion, \* train_all run -> the version create_version returned to it
    wrote,      \* {<<run, version>>}: the run saved a blob or manifest there
    rebuildOut, \* outcome of the last rebuild_merchants run
    anom,       \* the AnomalyService instance: its fields
    anomReady,  \* a successful train, or a load_state of a trained state, has
                \* taken place on that instance
    cat,        \* the CategoryService instance: its fields
    catReady,   \* as anomReady, for the CategoryService instance
    subject,    \* the service class whose instance the run exercises: the
                \* two instances are separate objects that share no state
    scoreIn,    \* the arguments of the score (predict) call under study
    out,        \* the last service call: operation, arguments, outcome
    libs,       \* what the imports at module load found: the flags
                \* _SENTENCE_TRANSFORMERS_AVAILABLE, _TFIDF_AVAILABLE, _FAISS_AVAILABLE
    emb,        \* the EmbeddingService instance: its fields
    embReady,   \* an initialize() has returned True on that instance, or it
                \* was restored from the state of an instance where one had
    merch,      \* the MerchantService instance: its fields
    services    \* the dict load_models returned

vars == <<clock, store, lastCall, manager, pc, runVersion, wrote, rebuildOut,
          anom, anomReady, cat, catReady, subject, scoreIn, out,
          libs, emb, embReady, merch, services>>

storeVars == <<clock, store, lastCall, manager>>
trainVars == <<pc, runVersion, wrote, rebuildOut>>
serviceVars == <<anom, anomReady, cat, catReady, subject, scoreIn, out>>
engineVars == <<libs, emb, embReady, merch, services>>

-----------------------------------------------------------------------------
(* Bounds of the model *)

MaxTime == 2          \* the clock runs over the seconds 0..MaxTime
MaxKeep == 2          \* cleanup_old_versions is called with keep in 0..MaxKeep

(* Program constants *)

DefaultKeep == 5      \* cleanup_old_versions(keep=5)
StampWidth == 2       \* digits of the formatted timestamp (fixed width)

-----------------------------------------------------------------------------
(* Values *)

None == "None"
NoVersion == << >>        \* version argument or result None
Absent == "absent"        \* the file does not exist
Corrupt == "corrupt"      \* the file exists and cannot be deserialized

ArtifactNames ==
    {"embedding_service", "merchant_service", "category_service", "anomaly_service"}

Runs == {1, 2}

EmptyDir ==
    [blobs |-> [n \in ArtifactNames |-> Absent],
     metas |-> [n \in ArtifactNames |-> Absent],
     manifest |-> Absent]

Min(a, b) == IF a < b THEN a ELSE b
Max(a, b) == IF a > b THEN a ELSE b

-----------------------------------------------------------------------------
(* Version names: "v" + strftime("%Y%m%d_%H%M%S"), a fixed-width digit      *)
(* string of one-second resolution; sorted() compares them as strings.      *)

RECURSIVE Digits(_, _)
Digits(t, w) == IF w = 0 THEN <<>> ELSE Append(Digits(t \div 10, w - 1), t % 10)

Strftime(t) == Digits(t, StampWidth)

RECURSIVE LexLess(_, _)
LexLess(a, b) ==
    IF a = <<>> THEN b # <<>>
    ELSE IF b = <<>> THEN FALSE
    ELSE IF Head(a) # Head(b) THEN Head(a) < Head(b)
    ELSE LexLess(Tail(a), Tail(b))

RECURSIVE Sorted(_)
Sorted(S) ==
    IF S = {} THEN <<>>
    ELSE LET m == CHOOSE x \in S : \A y \in S \ {x} : LexLess(x, y)
         IN  <<m>> \o Sorted(S \ {m})

Range(s) == {s[i] : i \in 1..Len(s)}

\* Python s[:j]
SliceTo(s, j) ==
    IF j < 0 THEN SubSeq(s, 1, Max(Len(s) + j, 0))
    ELSE SubSeq(s, 1, Min(j, Len(s)))

-----------------------------------------------------------------------------
(* ArtifactManager *)

_list_versions(st) == Sorted(DOMAIN st)

get_latest_version(st) ==
    LET versions == _list_versions(st)
    IN  IF Len(versions) > 0 THEN versions[Len(versions)] ELSE NoVersion

\* mkdir(parents=True, exist_ok=True): an existing directory is left as it is
Mkdir(st, version) ==
    IF version \in DOMAIN st THEN st
    ELSE [v \in DOMAIN st \cup {version} |-> IF v = version THEN EmptyDir ELSE st[v]]

create_version_name(now) == Strftime(now)

\* get_version_dir: the version whose directory is to be read, or None
get_version_dir(st, version) ==
    LET v == IF version = NoVersion THEN get_latest_version(st) ELSE version
    IN  IF v = NoVersion THEN NoVersion
        ELSE IF v \in DOMAIN st THEN v ELSE NoVersion

\* save_artifact: the blob is always written, the sidecar only for a truthy
\* metadata dict
save_artifact(st, name, obj, version, metadata) ==
    LET made == Mkdir(st, version)
        withBlob == [made[version] EXCEPT !.blobs[name] = obj]
        withMeta == IF metadata \notin {None, "empty"}
                    THEN [withBlob EXCEPT !.metas[name] = metadata]
                    ELSE withBlob
    IN  [made EXCEPT ![version] = withMeta]

save_manifest(st, version, manifest) ==
    LET made == Mkdir(st, version)
    IN  [made EXCEPT ![version].manifest = manifest]

\* load_artifact: what the call does, as a record of its outcome
load_artifact(st, name, version) ==
    LET dir == get_version_dir(st, version)
    IN  IF dir = NoVersion
          THEN [outcome |-> "return", obj |-> None, meta |-> None]
        ELSE IF st[dir].blobs[name] = Absent
          THEN [outcome |-> "return", obj |-> None, meta |-> None]
        ELSE IF st[dir].blobs[name] = Corrupt
          THEN [outcome |-> "return", obj |-> None, meta |-> None]
        ELSE IF st[dir].metas[name] = Absent
          THEN [outcome |-> "return", obj |-> st[dir].blobs[name], meta |-> None]
        ELSE IF st[dir].metas[name] = Corrupt
          THEN [outcome |-> "raise", obj |-> None, meta |-> None]
        ELSE [outcome |-> "return", obj |-> st[dir].blobs[name],
              meta |-> st[dir].metas[name]]

\* cleanup_old_versions: the versions it tries to remove
to_remove(st, keep) ==
    LET versions == _list_versions(st)
    IN  IF Len(versions) <= keep THEN <<>> ELSE SliceTo(versions, -keep)

\* rmtree succeeds on every version of to_remove except those in failed
cleanup_old_versions(st, keep, failed) ==
    LET gone == Range(to_remove(st, keep)) \ failed
    IN  [st |-> [v \in DOMAIN st \ gone |-> st[v]], removed |-> Cardinality(gone)]

-----------------------------------------------------------------------------
(* Trained objects.  What scikit-learn fits is identified by the training   *)
(* data it was fitted on: data = 0 stands for None, fitted = FALSE for an   *)
(* estimator that was constructed and whose fit() did not complete.         *)

MaxData == 2          \* training data sets 1..MaxData
MaxRows == 11         \* usable rows of a training set: 0..MaxRows
MaxUnusable == 1      \* rows the training filter drops: 0..MaxUnusable
MaxBatch == 2         \* rows of a score / predict batch: 0..MaxBatch

CategoryMinRows == 10     \* categoriser.py: if len(df) < 10
AnomalyMinRows == 10      \* anomalies.py: if len(df_debit) < 10
SUSPICIOUS_THRESHOLD == 60    \* 0.6, scores are in hundredths
SEVERE_THRESHOLD == 80        \* 0.8

DataIds == 1..MaxData

NoModel == [data |-> 0, fitted |-> FALSE]
Unfitted(d) == [data |-> d, fitted |-> FALSE]
Fitted(d) == [data |-> d, fitted |-> TRUE]

\* Outcome of the scikit-learn calls inside train
LibOutcomes == {"ok", "vectorizer_raises", "fit_raises"}

-----------------------------------------------------------------------------
(* AnomalyService *)

\* A training frame is read through the groups its DEBIT rows fall into: a
\* cell is a (category, merchant) pair, Missing stands for NaN / None, and
\* debit[cell] is the number of DEBIT rows of the cell.  The rows of a cell
\* carry the amount AmountOf(cell), in hundredths.
Missing == "NaN"
Categories == {Missing, "", "Groceries"}
Merchants == {Missing, "Tesco"}
Cells == Categories \X Merchants

AmountOf(cell) ==
    (IF cell[1] = "Groceries" THEN 1000 ELSE IF cell[1] = "" THEN 1200 ELSE 1400)
    + (IF cell[2] = "Tesco" THEN 50 ELSE 0)

RECURSIVE SumOver(_, _)
SumOver(f, S) ==
    IF S = {} THEN 0
    ELSE LET x == CHOOSE y \in S : TRUE IN f[x] + SumOver(f, S \ {x})

\* len(df_debit)
RowCount(debit) == SumOver(debit, Cells)

\* a frame whose n DEBIT rows all carry the same category and merchant
OneGroup(n) == [c \in Cells |-> IF c = <<"Groceries", "Tesco">> THEN n ELSE 0]

EmptyDict == [k \in {} |-> 0]

\* ArtifactManager.__init__: nothing loaded
ArtifactManager == [current_version |-> NoVersion, artifacts |-> EmptyDict]

\* df.groupby(column): the rows of each key, NaN keys dropped (field = 1 for
\* "category", 2 for "merchant")
GroupCells(field, key) == {c \in Cells : c[field] = key}
GroupLen(debit, field, key) == SumOver(debit, GroupCells(field, key))
GroupMean(debit, field, key) ==
    SumOver([c \in Cells |-> debit[c] * AmountOf(c)], GroupCells(field, key))
        \div GroupLen(debit, field, key)

\* the integer square root of a number below 256 * 256, found digit by digit
Isqrt(n) ==
    LET high == CHOOSE h \in 0..15 : (16 * h) * (16 * h) <= n
                                     /\ n < (16 * h + 16) * (16 * h + 16)
        low == CHOOSE l \in 0..15 : (16 * high + l) * (16 * high + l) <= n
                                    /\ n < (16 * high + l + 1) * (16 * high + l + 1)
    IN  16 * high + low

\* N * sum(a^2) - sum(a)^2 over the rows of the cells S, which is N^2 times
\* the population variance; the amounts are taken from the least of them on,
\* which leaves the variance as it is
AmountBase == AmountOf(<<"Groceries", Missing>>)
Scatter(debit, S) ==
    SumOver(debit, S)
        * SumOver([c \in Cells |-> debit[c] * (AmountOf(c) - AmountBase)
                                            * (AmountOf(c) - AmountBase)], S)
    - SumOver([c \in Cells |-> debit[c] * (AmountOf(c) - AmountBase)], S)
        * SumOver([c \in Cells |-> debit[c] * (AmountOf(c) - AmountBase)], S)

StdFloor == 100       \* anomalies.py: float(np.std(...)) or 1.0, in hundredths

\* float(np.std(amounts)) or 1.0: only a standard deviation of exactly 0.0
\* (all amounts equal) is replaced
StdOf(debit, S) ==
    IF Scatter(debit, S) = 0 THEN StdFloor
    ELSE Isqrt(Scatter(debit, S) \div (SumOver(debit, S) * SumOver(debit, S)))

\* np.median(amounts): the amount of the row at a position of the sorted rows
AmountAt(debit, position) ==
    AmountOf(CHOOSE c \in Cells :
        /\ debit[c] > 0
        /\ SumOver(debit, {d \in Cells : AmountOf(d) < AmountOf(c)}) < position
        /\ SumOver(debit, {d \in Cells : AmountOf(d) <= AmountOf(c)}) >= position)

Median(debit) ==
    LET n == RowCount(debit)
    IN  IF n % 2 = 1 THEN AmountAt(debit, (n + 1) \div 2)
        ELSE (AmountAt(debit, n \div 2) + AmountAt(debit, n \div 2 + 1)) \div 2

MinGroupRows == 3     \* anomalies.py: len(group) >= 3

\* variant: groups of two rows get an entry as well
GroupStatsFromTwo(debit, field, keys) ==
    LET kept == {k \in keys \ {Missing} : GroupLen(debit, field, k) >= 2}
    IN  [k \in kept |-> [mean |-> GroupMean(debit, field, k),
                         std |-> StdOf(debit, GroupCells(field, k)),
                         count |-> GroupLen(debit, field, k)]]

\* the table _compute_statistics builds for one column
GroupStats(debit, field, keys) ==
    LET kept == {k \in keys \ {Missing} : GroupLen(debit, field, k) >= MinGroupRows}
    IN  [k \in kept |-> [mean |-> GroupMean(debit, field, k),
                         std |-> StdOf(debit, GroupCells(field, k)),
                         count |-> GroupLen(debit, field, k)]]

\* _global_stats: mean, std and median of all rows; it holds no count
GlobalStats(debit) ==
    [k \in {"mean", "std", "median"} |->
        IF k = "mean"
          THEN SumOver([c \in Cells |-> debit[c] * AmountOf(c)], Cells)
                  \div RowCount(debit)
        ELSE IF k = "std" THEN StdOf(debit, Cells)
        ELSE Median(debit)]

\* _compute_statistics(df): the three tables are built anew
_compute_statistics(svc, debit) ==
    [svc EXCEPT !.global_stats = GlobalStats(debit),
                !.category_stats = GroupStats(debit, 1, Categories),
                !.merchant_stats = GroupStats(debit, 2, Merchants)]

AnomalyService(model, category_stats, merchant_stats) ==
    [model |-> model,
     category_stats |-> category_stats,
     merchant_stats |-> merchant_stats,
     global_stats |-> EmptyDict,
     trained |-> FALSE]

anom_is_trained(svc) == svc.trained

\* variant: a failing fit leaves the instance untrained
anomaly_train_resets(svc, df, lib) ==
    IF RowCount(df.debit) < AnomalyMinRows
    THEN [svc |-> svc, outcome |-> "InsufficientData"]
    ELSE LET stats == [_compute_statistics(svc, df.debit) EXCEPT !.trained = FALSE]
         IN  IF lib = "fit_raises"
             THEN [svc |-> [stats EXCEPT !.model = Unfitted(df.data)],
                   outcome |-> "raise"]
             ELSE [svc |-> [stats EXCEPT !.model = Fitted(df.data),
                                         !.trained = TRUE],
                   outcome |-> "ok"]

\* train(df): df = [data, debit, credit]: the DEBIT rows by cell and the
\* number of CREDIT rows, which the filter drops
anomaly_train(svc, df, lib) ==
    IF RowCount(df.debit) < AnomalyMinRows
    THEN [svc |-> svc, outcome |-> "InsufficientData"]
    ELSE LET stats == _compute_statistics(svc, df.debit)
         IN  IF lib = "fit_raises"
             THEN [svc |-> [stats EXCEPT !.model = Unfitted(df.data)],
                   outcome |-> "raise"]
             ELSE [svc |-> [stats EXCEPT !.model = Fitted(df.data),
                                         !.trained = TRUE],
                   outcome |-> "ok"]

anom_get_state(svc) == svc

anom_load_state(svc, state) ==
    [model |-> state.model,
     category_stats |-> state.category_stats,
     merchant_stats |-> state.merchant_stats,
     global_stats |-> state.global_stats,
     trained |-> state.trained]

\* str(row.get("id", "")): ids are strings or integers
Str(id) == IF "n" \in DOMAIN id THEN ToString(id.n) ELSE id.s

\* np.clip(x, lo, hi)
Clip(x, lo, hi) == IF x < lo THEN lo ELSE IF x > hi THEN hi ELSE x

\* variant: SEVERE only above the threshold
LabelStrict(score) ==
    IF score > SEVERE_THRESHOLD THEN "SEVERE"
    ELSE IF score >= SUSPICIOUS_THRESHOLD THEN "SUSPICIOUS"
    ELSE "NORMAL"

Label(score) ==
    IF score >= SEVERE_THRESHOLD THEN "SEVERE"
    ELSE IF score >= SUSPICIOUS_THRESHOLD THEN "SUSPICIOUS"
    ELSE "NORMAL"

\* _build_notes: the severity phrase that opens the notes
SeverityPhrase(score) ==
    IF score >= SEVERE_THRESHOLD THEN "Highly unusual transaction"
    ELSE IF score >= SUSPICIOUS_THRESHOLD THEN "Moderately unusual transaction"
    ELSE "Transaction appears normal"

\* "x and x in table": None and "" are falsy, NaN is the key of no entry
Usable(x, table) == x # "" /\ x # Missing /\ x \in DOMAIN table

\* self._global_stats.get("mean", 0.0)
GlobalMean(svc) ==
    IF "mean" \in DOMAIN svc.global_stats THEN svc.global_stats["mean"] ELSE 0

_compute_residual(svc, amount, category, merchant) ==
    LET baseline ==
            IF Usable(category, svc.category_stats)
              THEN svc.category_stats[category].mean
            ELSE IF Usable(merchant, svc.merchant_stats)
              THEN svc.merchant_stats[merchant].mean
            ELSE GlobalMean(svc)
    IN  [baseline |-> baseline, residual |-> amount - baseline]

ResidualNoteAbove == 10000    \* abs(residual) > 100, in hundredths

Abs(x) == IF x < 0 THEN -x ELSE x

\* the parts of the notes, joined by "; " in the code: the severity phrase,
\* the residual phrase when the residual is large, the provenance phrase
_build_notes(svc, score, residual, category, merchant) ==
    LET magnitude ==
            IF Abs(residual) > ResidualNoteAbove
            THEN <<[phrase |-> "Amount is {} {} baseline",
                    amount |-> Abs(residual),
                    direction |-> IF residual > 0 THEN "above" ELSE "below"]>>
            ELSE << >>
        provenance ==
            IF Usable(category, svc.category_stats)
              THEN [phrase |-> "Based on {} similar {} transactions",
                    count |-> svc.category_stats[category].count,
                    of |-> category]
            ELSE IF Usable(merchant, svc.merchant_stats)
              THEN [phrase |-> "Based on {} transactions from {}",
                    count |-> svc.merchant_stats[merchant].count,
                    of |-> merchant]
            ELSE [phrase |-> "Using global baseline (limited category/merchant data)"]
    IN  <<SeverityPhrase(score)>> \o magnitude \o <<provenance>>

Skipped(txn_id, notes) ==
    [result |-> [id |-> txn_id, score |-> 0, label |-> "NORMAL",
                 baseline |-> 0, residual |-> 0, notes |-> <<notes>>],
     consulted |-> FALSE]

\* the result of a row that went to the model
Scored(svc, txn_id, row, score) ==
    LET why == _compute_residual(svc, row.amount, row.category, row.merchant)
    IN  [result |-> [id |-> txn_id, score |-> score, label |-> Label(score),
                     baseline |-> why.baseline, residual |-> why.residual,
                     notes |-> _build_notes(svc, score, why.residual,
                                            row.category, row.merchant)],
         consulted |-> TRUE]

\* variant: the direction is compared with "credit"
score_row_lowercase(svc, row, ignore_ids, decision) ==
    LET txn_id == Str(row.id)
    IN  IF txn_id \in ignore_ids
          THEN Skipped(txn_id, "Skipped (in ignore list)")
        ELSE IF row.direction = "credit"
          THEN Skipped(txn_id, "Credit transactions not scored")
        ELSE Scored(svc, txn_id, row, Clip(-decision + 50, 0, 100))

\* One iteration of score's loop.  decision is what decision_function
\* returns for the row, in hundredths; consulted tells whether it was called.
score_row(svc, row, ignore_ids, decision) ==
    LET txn_id == Str(row.id)
    IN  IF txn_id \in ignore_ids
          THEN Skipped(txn_id, "Skipped (in ignore list)")
        ELSE IF row.direction = "CREDIT"
          THEN Skipped(txn_id, "Credit transactions not scored")
        ELSE LET raw_score == -decision
             IN  Scored(svc, txn_id, row, Clip(raw_score + 50, 0, 100))

\* variant: the short-circuit branches continue without appending a result
score_drops_skipped(svc, df, ignore_ids, decisions) ==
    LET rows == [i \in 1..Len(df) |-> score_row(svc, df[i], ignore_ids, decisions[i])]
        kept == SelectSeq(rows, LAMBDA r : r.consulted)
    IN  IF ~anom_is_trained(svc)
          THEN [outcome |-> "NotTrained", results |-> << >>, consulted |-> << >>]
        ELSE IF ~svc.model.fitted /\ \E i \in 1..Len(df) : rows[i].consulted
          THEN [outcome |-> "raise", results |-> << >>, consulted |-> << >>]
        ELSE [outcome |-> "return",
              results |-> [i \in 1..Len(kept) |-> kept[i].result],
              consulted |-> [i \in 1..Len(kept) |-> kept[i].consulted]]

\* score(df, ignore_ids); decisions[i] is the model's answer for row i
score(svc, df, ignore_ids, decisions) ==
    LET rows == [i \in 1..Len(df) |-> score_row(svc, df[i], ignore_ids, decisions[i])]
    IN  IF ~anom_is_trained(svc)
          THEN [outcome |-> "NotTrained", results |-> << >>, consulted |-> << >>]
        ELSE IF ~svc.model.fitted /\ \E i \in 1..Len(df) : rows[i].consulted
          THEN [outcome |-> "raise", results |-> << >>, consulted |-> << >>]
        ELSE [outcome |-> "return",
              results |-> [i \in 1..Len(df) |-> rows[i].result],
              consulted |-> [i \in 1..Len(df) |-> rows[i].consulted]]

-----------------------------------------------------------------------------
(* CategoryService *)

NoExtractor == [exists |-> FALSE, tfidf |-> NoModel, fitted |-> FALSE]
FeatureExtractor == [exists |-> TRUE, tfidf |-> NoModel, fitted |-> FALSE]
FittedExtractor(d) == [exists |-> TRUE, tfidf |-> Fitted(d), fitted |-> TRUE]

CategoryService(feature_extractor, model, label_encoder) ==
    [feature_extractor |-> feature_extractor,
     model |-> model,
     label_encoder |-> label_encoder,
     trained |-> FALSE]

\* variant: a model is enough
cat_is_trained_by_model(svc) == svc.model # NoModel

cat_is_trained(svc) == svc.trained /\ svc.model # NoModel

\* variant: the rows are counted before the unlabelled ones are dropped
category_train_unfiltered(svc, df, lib) ==
    IF df.labelled + df.unlabelled < CategoryMinRows
    THEN [svc |-> svc, outcome |-> "InsufficientData"]
    ELSE [svc |-> [svc EXCEPT !.feature_extractor = FittedExtractor(df.data),
                              !.label_encoder = df.data,
                              !.model = Fitted(df.data),
                              !.trained = TRUE],
          outcome |-> "ok"]

\* train(df): df = [data, labelled, unlabelled], the numbers of rows with
\* and without a category
category_train(svc, df, lib) ==
    IF df.labelled < CategoryMinRows
    THEN [svc |-> svc, outcome |-> "InsufficientData"]
    ELSE LET fe == IF svc.feature_extractor.exists THEN svc.feature_extractor
                   ELSE FeatureExtractor
         IN  IF lib = "vectorizer_raises"
             THEN [svc |-> [svc EXCEPT !.feature_extractor =
                                [fe EXCEPT !.tfidf = Unfitted(df.data)]],
                   outcome |-> "raise"]
             ELSE LET encoded == [svc EXCEPT
                                    !.feature_extractor = FittedExtractor(df.data),
                                    !.label_encoder = df.data]
                  IN  IF lib = "fit_raises"
                      THEN [svc |-> [encoded EXCEPT !.model = Unfitted(df.data)],
                            outcome |-> "raise"]
                      ELSE [svc |-> [encoded EXCEPT !.model = Fitted(df.data),
                                                    !.trained = TRUE],
                            outcome |-> "ok"]

\* predict(df) on n rows: each prediction is determined by the model, the
\* label encoder and the feature extractor that produce it
predict(svc, n) ==
    IF ~cat_is_trained(svc)
      THEN [outcome |-> "NotTrained", results |-> << >>]
    ELSE IF ~svc.feature_extractor.exists \/ ~svc.feature_extractor.tfidf.fitted
            \/ ~svc.model.fitted
      THEN [outcome |-> "raise", results |-> << >>]
    ELSE [outcome |-> "return",
          results |-> [i \in 1..n |->
                        [model |-> svc.model.data,
                         label_encoder |-> svc.label_encoder,
                         features |-> svc.feature_extractor.tfidf.data]]]

cat_get_state(svc) ==
    [model |-> svc.model,
     label_encoder |-> svc.label_encoder,
     feature_extractor |-> svc.feature_extractor,
     trained |-> svc.trained]

\* the extractor is replaced only when the state holds one
cat_load_state(svc, state) ==
    [model |-> state.model,
     label_encoder |-> state.label_encoder,
     trained |-> state.trained,
     feature_extractor |-> IF state.feature_extractor.exists
                           THEN state.feature_extractor
                           ELSE svc.feature_extractor]

-----------------------------------------------------------------------------
(* Texts.  A text is the sequence of its words; the words used here are a   *)
(* capitalised name, a business suffix and a store number.                  *)

Words == {"Tesco", "Amazon", "Ltd", "5678"}

\* str.lower()
Lower(w) ==
    CASE w = "Tesco" -> "tesco"
      [] w = "Amazon" -> "amazon"
      [] w = "Ltd" -> "ltd"
      [] OTHER -> w

MapSeq(s, Op(_)) == [i \in 1..Len(s) |-> Op(s[i])]

RECURSIVE Filter(_, _)
Filter(s, drop) ==
    IF s = << >> THEN << >>
    ELSE IF Head(s) \in drop THEN Filter(Tail(s), drop)
    ELSE <<Head(s)>> \o Filter(Tail(s), drop)

\* words the suffix patterns of normalize_merchant_text delete, and the
\* standalone numbers
SuffixWords == {"ltd"}
NumberWords == {"5678"}

\* EmbeddingService._preprocess: lowercase, specials to spaces, collapse
_preprocess(text) == MapSeq(text, Lower)

\* normalize_merchant_text: "" for an empty text
normalize_merchant_text(text) ==
    Filter(MapSeq(text, Lower), SuffixWords \cup NumberWords)

\* set(text.split())
Tokens(text) == Range(text)

-----------------------------------------------------------------------------
(* EmbeddingService *)

TfidfDim == 384       \* embeddings.py: self._embedding_dim = 384
NativeDim == 384      \* get_sentence_embedding_dimension() of all-MiniLM-L6-v2

NoTfidf == [exists |-> FALSE, fitted |-> FALSE, vocabulary |-> {}]
NewTfidf == [exists |-> TRUE, fitted |-> FALSE, vocabulary |-> {}]
FittedTfidf(vocabulary) ==
    [exists |-> TRUE, fitted |-> TRUE, vocabulary |-> vocabulary]

\* __init__(model_name, use_tfidf_fallback, tfidf_vectorizer); embedding_dim
\* 0 stands for None
EmbeddingService(use_tfidf_fallback, tfidf_vectorizer) ==
    [model |-> None,
     tfidf |-> tfidf_vectorizer,
     embedding_dim |-> 0,
     using_tfidf |-> FALSE,
     use_tfidf_fallback |-> use_tfidf_fallback]

\* initialize(): load is what the SentenceTransformer constructor does when
\* it is called, "ok" or "raises"
initialize(e, lib, load) ==
    IF lib.st /\ load = "ok"
      THEN [e |-> [e EXCEPT !.model = "st", !.embedding_dim = NativeDim],
            ret |-> TRUE]
    ELSE IF e.use_tfidf_fallback /\ lib.tfidf
      THEN [e |-> [e EXCEPT !.using_tfidf = TRUE,
                            !.tfidf = IF e.tfidf.exists THEN e.tfidf ELSE NewTfidf,
                            !.embedding_dim = TfidfDim],
            ret |-> TRUE]
    ELSE [e |-> e, ret |-> FALSE]

embedding_dim(e) == IF e.embedding_dim = 0 THEN TfidfDim ELSE e.embedding_dim

is_initialized(e) == e.model # None \/ (e.using_tfidf /\ e.tfidf.exists)

\* the branch embed dispatches to
Strategy(e) ==
    IF e.model # None THEN "semantic"
    ELSE IF e.using_tfidf /\ e.tfidf.exists THEN "tfidf"
    ELSE "none"

\* all the words of a list of texts
Vocabulary(texts) == UNION {Tokens(texts[i]) : i \in 1..Len(texts)}

\* a vector is known by the strategy that made it and by what determines its
\* entries: the text for the semantic model, the words of the text that the
\* fitted vocabulary holds for the vectorizer
SemanticVector(text) == [strategy |-> "semantic", text |-> text, terms |-> {}]
TfidfVector(text, vocabulary) ==
    [strategy |-> "tfidf", text |-> << >>, terms |-> Tokens(text) \cap vocabulary]

\* variant: a vectorizer that is present is used whether or not the
\* frequency strategy was selected
embed_any_vectorizer(e, texts) ==
    LET clean == MapSeq(texts, _preprocess)
    IN  IF texts = << >>
          THEN [outcome |-> "return", vectors |-> << >>, e |-> e]
        ELSE IF e.model # None
          THEN [outcome |-> "return", e |-> e,
                vectors |-> [i \in 1..Len(clean) |-> SemanticVector(clean[i])]]
        ELSE IF e.tfidf.exists
          THEN [outcome |-> "return", e |-> e,
                vectors |-> [i \in 1..Len(clean) |->
                                TfidfVector(clean[i], e.tfidf.vocabulary)]]
        ELSE [outcome |-> "EngineUnavailable", vectors |-> << >>, e |-> e]

\* embed(texts): the vectors, and the instance as the call leaves it.  An
\* unfitted vectorizer is fitted on the texts of the call (fit_transform);
\* fitting raises ValueError when the texts hold no word.
embed(e, texts) ==
    LET clean == MapSeq(texts, _preprocess)
    IN  IF texts = << >>
          THEN [outcome |-> "return", vectors |-> << >>, e |-> e]
        ELSE IF e.model # None
          THEN [outcome |-> "return", e |-> e,
                vectors |-> [i \in 1..Len(clean) |-> SemanticVector(clean[i])]]
        ELSE IF e.using_tfidf /\ e.tfidf.exists
          THEN IF e.tfidf.fitted
                 THEN [outcome |-> "return", e |-> e,
                       vectors |-> [i \in 1..Len(clean) |->
                                       TfidfVector(clean[i], e.tfidf.vocabulary)]]
               ELSE IF Vocabulary(clean) = {}
                 THEN [outcome |-> "raise", vectors |-> << >>, e |-> e]
               ELSE [outcome |-> "return",
                     e |-> [e EXCEPT !.tfidf = FittedTfidf(Vocabulary(clean))],
                     vectors |-> [i \in 1..Len(clean) |->
                                     TfidfVector(clean[i], Vocabulary(clean))]]
        ELSE [outcome |-> "EngineUnavailable", vectors |-> << >>, e |-> e]

\* fit_tfidf(texts)
fit_tfidf(e, texts) ==
    LET clean == MapSeq(texts, _preprocess)
    IN  IF ~e.tfidf.exists THEN [outcome |-> "return", e |-> e]
        ELSE IF Vocabulary(clean) = {} THEN [outcome |-> "raise", e |-> e]
        ELSE [outcome |-> "return",
              e |-> [e EXCEPT !.tfidf = FittedTfidf(Vocabulary(clean))]]

emb_get_state(e) ==
    [embedding_dim |-> e.embedding_dim,
     using_tfidf |-> e.using_tfidf,
     tfidf |-> IF e.using_tfidf THEN e.tfidf ELSE NoTfidf]

\* from_state(state): a new instance; no model is loaded
from_state(state) ==
    [EmbeddingService(TRUE, state.tfidf) EXCEPT
        !.embedding_dim = state.embedding_dim,
        !.using_tfidf = state.using_tfidf]

-----------------------------------------------------------------------------
(* MerchantService.  The instance holds a reference to an EmbeddingService  *)
(* object (has_engine) that it shares with its creator; the operations take *)
(* that object as e and return it as the call leaves it.                    *)

NoArray == [present |-> FALSE, rows |-> << >>]
Array(rows) == [present |-> TRUE, rows |-> rows]

\* __init__(embedding_service, canonical_merchants)
MerchantService(has_engine, canonical_merchants, lib) ==
    [has_engine |-> has_engine,
     canonical_merchants |-> canonical_merchants,
     index |-> NoArray,
     embeddings |-> NoArray,
     using_faiss |-> lib.faiss]

RoundingExcess == 1   \* a float32 inner product of unit vectors just above 1

\* cosine similarity of two vectors after L2 normalisation, in hundredths; a
\* zero vector (no term of the vocabulary) has similarity 0 to every vector
Similarity(q, r) ==
    IF q.strategy # r.strategy THEN 0
    ELSE IF q.strategy = "semantic"
      THEN IF q.text = r.text THEN 100 + RoundingExcess
           ELSE IF Tokens(q.text) \cap Tokens(r.text) # {} THEN 60
           ELSE -10
    ELSE IF q.terms = {} \/ r.terms = {} THEN 0
    ELSE IF q.terms = r.terms THEN 100 + RoundingExcess
    ELSE IF q.terms \cap r.terms # {} THEN 50
    ELSE 0

\* the row numbers by decreasing similarity; equal similarities come in row
\* order from the FAISS index and in reverse row order from argsort()[::-1]
RECURSIVE OrderDesc(_, _, _)
OrderDesc(sims, left, lowFirst) ==
    IF left = {} THEN << >>
    ELSE LET best == CHOOSE i \in left : \A j \in left \ {i} :
                        \/ sims[i] > sims[j]
                        \/ sims[i] = sims[j] /\ (IF lowFirst THEN i < j ELSE i > j)
         IN  <<best>> \o OrderDesc(sims, left \ {best}, lowFirst)

\* variant: the similarity is reported as it is
SearchHitUnclamped(svc, combined, idx, dist) ==
    [canonical |-> svc.canonical_merchants[idx],
     score |-> dist,
     matched_tokens |-> Tokens(combined)
        \cap Tokens(normalize_merchant_text(svc.canonical_merchants[idx]))]

\* one entry of the result list
SearchHit(svc, combined, idx, dist) ==
    [canonical |-> svc.canonical_merchants[idx],
     score |-> Max(0, Min(100, dist)),
     matched_tokens |-> Tokens(combined)
        \cap Tokens(normalize_merchant_text(svc.canonical_merchants[idx]))]

\* search(query, hint_merchant, hint_description, top_k); a hint that is
\* None or "" is the empty text.  The FAISS index is asked for
\* min(top_k, number of names) rows and answers with the rows it holds
\* (for no row it returns none, or rejects the call with an error, depending
\* on the build); the other path slices the sorted rows with [:top_k].
\* Besides the result list the record holds the locals 'indices' (the rows
\* chosen, in order) and the similarity of every row to the query.
search(svc, e, query, hint_merchant, hint_description, top_k) ==
    LET combined == normalize_merchant_text(query)
                    \o normalize_merchant_text(hint_merchant)
                    \o normalize_merchant_text(hint_description)
        embedded == embed(e, <<combined>>)
        faiss == svc.using_faiss /\ svc.index.present
        rows == IF faiss THEN svc.index.rows ELSE svc.embeddings.rows
        sims == [i \in 1..Len(rows) |-> Similarity(embedded.vectors[1], rows[i])]
        k == IF faiss THEN Min(top_k, Len(svc.canonical_merchants)) ELSE top_k
        indices == SliceTo(OrderDesc(sims, 1..Len(rows), faiss), k)
    IN  IF svc.canonical_merchants = << >> \/ ~svc.embeddings.present
          THEN [outcome |-> "return", results |-> << >>, e |-> e,
                indices |-> << >>, similarities |-> << >>]
        ELSE IF ~svc.has_engine
          THEN [outcome |-> "raise", results |-> << >>, e |-> e,
                indices |-> << >>, similarities |-> << >>]
        ELSE IF embedded.outcome # "return"
          THEN [outcome |-> embedded.outcome, results |-> << >>, e |-> embedded.e,
                indices |-> << >>, similarities |-> << >>]
        ELSE IF \E n \in 1..Len(indices) : indices[n] > Len(svc.canonical_merchants)
          THEN [outcome |-> "raise", results |-> << >>, e |-> embedded.e,
                indices |-> indices, similarities |-> sims]
        ELSE [outcome |-> "return", e |-> embedded.e,
              indices |-> indices, similarities |-> sims,
              results |-> [n \in 1..Len(indices) |->
                            SearchHit(svc, combined, indices[n], sims[indices[n]])]]

DefaultTopK == 5      \* normalise: self.search(..., top_k=5)
MaxCandidates == 3    \* normalise: candidates[:3]

Candidates(results) ==
    [n \in 1..Min(MaxCandidates, Len(results)) |->
        [canonical |-> results[n].canonical, score |-> results[n].score]]

\* variant: the best match is reported whatever its score
normalise_adopts(svc, e, raw, hint_merchant, hint_description, min_score) ==
    LET found == search(svc, e, raw, hint_merchant, hint_description, DefaultTopK)
        candidates == found.results
        own == IF normalize_merchant_text(raw) # << >>
               THEN normalize_merchant_text(raw) ELSE raw
    IN  IF found.outcome # "return"
          THEN [outcome |-> found.outcome, e |-> found.e]
        ELSE IF candidates = << >>
          THEN [outcome |-> "return", e |-> found.e,
                result |-> [canonical |-> own, score |-> 0, candidates |-> << >>,
                            notes |-> "No canonical merchants in index"]]
        ELSE [outcome |-> "return", e |-> found.e,
              result |-> [canonical |-> candidates[1].canonical,
                          score |-> candidates[1].score,
                          candidates |-> Candidates(candidates),
                          notes |-> "Matched with score {}"]]

\* normalise(raw, hint_merchant, hint_description, min_score)
normalise(svc, e, raw, hint_merchant, hint_description, min_score) ==
    LET found == search(svc, e, raw, hint_merchant, hint_description, DefaultTopK)
        candidates == found.results
        own == IF normalize_merchant_text(raw) # << >>
               THEN normalize_merchant_text(raw) ELSE raw
    IN  IF found.outcome # "return"
          THEN [outcome |-> found.outcome, e |-> found.e]
        ELSE IF candidates = << >>
          THEN [outcome |-> "return", e |-> found.e,
                result |-> [canonical |-> own, score |-> 0, candidates |-> << >>,
                            notes |-> "No canonical merchants in index"]]
        ELSE IF candidates[1].score < min_score
          THEN [outcome |-> "return", e |-> found.e,
                result |-> [canonical |-> own, score |-> candidates[1].score,
                            candidates |-> Candidates(candidates),
                            notes |-> "Best match below threshold ({} < {})"]]
        ELSE [outcome |-> "return", e |-> found.e,
              result |-> [canonical |-> candidates[1].canonical,
                          score |-> candidates[1].score,
                          candidates |-> Candidates(candidates),
                          notes |-> "Matched with score {}"]]

\* build_index(canonical_merchants)
build_index(svc, e, canonical_merchants, lib) ==
    LET named == [svc EXCEPT !.canonical_merchants = canonical_merchants]
        embedded == embed(e, MapSeq(canonical_merchants, normalize_merchant_text))
    IN  IF canonical_merchants = << >>
          THEN [outcome |-> "return", svc |-> named, e |-> e]
        ELSE IF ~svc.has_engine
          THEN [outcome |-> "raise", svc |-> named, e |-> e]
        ELSE IF embedded.outcome # "return"
          THEN [outcome |-> embedded.outcome, svc |-> named, e |-> embedded.e]
        ELSE [outcome |-> "return", e |-> embedded.e,
              svc |-> [named EXCEPT
                        !.embeddings = Array(embedded.vectors),
                        !.index = IF lib.faiss THEN Array(embedded.vectors)
                                  ELSE NoArray,
                        !.using_faiss = lib.faiss]]

merch_get_state(svc) ==
    [canonical_merchants |-> svc.canonical_merchants,
     embeddings |-> svc.embeddings,
     using_faiss |-> svc.using_faiss]

\* load_state(state): the index is rebuilt only when the state holds both
\* names and embeddings
merch_load_state(svc, state, lib) ==
    LET loaded == [svc EXCEPT !.canonical_merchants = state.canonical_merchants,
                              !.embeddings = state.embeddings]
    IN  IF state.embeddings.present /\ Len(state.canonical_merchants) > 0
        THEN IF lib.faiss
             THEN [loaded EXCEPT !.index = Array(state.embeddings.rows),
                                 !.using_faiss = TRUE]
             ELSE [loaded EXCEPT !.using_faiss = FALSE]
        ELSE loaded

-----------------------------------------------------------------------------
\* the engine variables where no engine has been constructed
InitEngineVars ==
    /\ libs = [st |-> FALSE, tfidf |-> FALSE, faiss |-> FALSE]
    /\ emb = None
    /\ embReady = FALSE
    /\ merch = None
    /\ services = None

InitStore ==
    /\ clock = 0
    /\ manager = ArtifactManager
    /\ store = << >>
    /\ lastCall = [op |-> "none"]
    /\ pc = [r \in Runs |-> "start"]
    /\ runVersion = [r \in Runs |-> NoVersion]
    /\ wrote = {}
    /\ rebuildOut = "none"
    /\ anom = AnomalyService(NoModel, EmptyDict, EmptyDict)
    /\ anomReady = FALSE
    /\ cat = CategoryService(NoExtractor, NoModel, 0)
    /\ catReady = FALSE
    /\ scoreIn = [df |-> << >>, ignore_ids |-> {}, decisions |-> << >>]
    /\ out = [op |-> "none"]
    /\ subject = None
    /\ InitEngineVars

ServiceClasses == {"AnomalyService", "CategoryService"}

InitLifecycle ==
    /\ clock = 0
    /\ manager = ArtifactManager
    /\ store = << >>
    /\ lastCall = [op |-> "none"]
    /\ pc = [r \in Runs |-> "start"]
    /\ runVersion = [r \in Runs |-> NoVersion]
    /\ wrote = {}
    /\ rebuildOut = "none"
    /\ anom = AnomalyService(NoModel, EmptyDict, EmptyDict)
    /\ anomReady = FALSE
    /\ cat = CategoryService(NoExtractor, NoModel, 0)
    /\ catReady = FALSE
    /\ scoreIn = [df |-> << >>, ignore_ids |-> {}, decisions |-> << >>]
    /\ out = [op |-> "none"]
    /\ subject \in ServiceClasses
    /\ InitEngineVars

Init == InitStore \/ InitLifecycle

Tick ==
    /\ clock < MaxTime
    /\ clock' = clock + 1
    /\ lastCall' = [op |-> "none"]
    /\ UNCHANGED <<manager, store, trainVars, engineVars, serviceVars>>

\* the names whose *.joblib file in the directory of v can be deserialized
Readable(st, v) == {n \in ArtifactNames : st[v].blobs[n] \notin {Absent, Corrupt}}

\* load_all: False without a version directory, leaving the manager as it
\* is; else _artifacts is emptied and filled file by file, in the order glob
\* yields them, and the first unreadable blob ends the call with False.
\* before: the readable blobs glob yields ahead of the first unreadable one
load_all(mgr, st, version, before) ==
    LET v == IF version = NoVersion THEN get_latest_version(st) ELSE version
    IN  IF v = NoVersion \/ get_version_dir(st, v) = NoVersion
          THEN [ret |-> FALSE, mgr |-> mgr]
        ELSE IF \E n \in ArtifactNames : st[v].blobs[n] = Corrupt
          THEN [ret |-> FALSE,
                mgr |-> [mgr EXCEPT !.artifacts =
                            [n \in before \cap Readable(st, v) |-> st[v].blobs[n]]]]
        ELSE [ret |-> TRUE,
              mgr |-> [current_version |-> v,
                       artifacts |-> [n \in Readable(st, v) |-> st[v].blobs[n]]]]

\* get: the loaded artifact of that name, or None
get(mgr, name) ==
    IF name \in DOMAIN mgr.artifacts THEN mgr.artifacts[name] ELSE None

-----------------------------------------------------------------------------
(* Direct calls of the ArtifactManager interface *)

StoreNames == {"embedding_service"}     \* names used by the direct calls
Objs == {"objA"}                        \* objects saved by the direct calls
Metadatas == {None, "empty", "metaA"}   \* metadata argument: None, {}, a dict

AllVersions == {Strftime(t) : t \in 0..MaxTime}

CreateVersion ==
    LET version == create_version_name(clock)
    IN  /\ store' = Mkdir(store, version)
        /\ lastCall' = [op |-> "create_version", ret |-> version]
        /\ UNCHANGED <<manager, clock, trainVars, engineVars, serviceVars>>

SaveArtifact ==
    \E name \in StoreNames, obj \in Objs, version \in DOMAIN store,
       metadata \in Metadatas :
        /\ store' = save_artifact(store, name, obj, version, metadata)
        /\ lastCall' = [op |-> "save_artifact", name |-> name, version |-> version,
                        obj |-> obj, metadata |-> metadata]
        /\ UNCHANGED <<manager, clock, trainVars, engineVars, serviceVars>>

LoadArtifact ==
    \E name \in StoreNames, version \in AllVersions \cup {NoVersion} :
        /\ lastCall' = [op |-> "load_artifact", name |-> name, version |-> version,
                        result |-> load_artifact(store, name, version)]
        /\ UNCHANGED <<manager, clock, store, trainVars, engineVars, serviceVars>>

CleanupOldVersions ==
    \E keep \in 0..MaxKeep :
      \E failed \in SUBSET Range(to_remove(store, keep)) :
        LET done == cleanup_old_versions(store, keep, failed)
        IN  /\ store' = done.st
            /\ lastCall' = [op |-> "cleanup_old_versions", keep |-> keep,
                            failed |-> failed, removed |-> done.removed]
            /\ UNCHANGED <<manager, clock, trainVars, engineVars, serviceVars>>

LoadAll ==
    \E version \in AllVersions \cup {NoVersion}, before \in SUBSET ArtifactNames :
      \E done \in {load_all(manager, store, version, before)} :
        /\ manager' = done.mgr
        /\ lastCall' = [op |-> "load_all", version |-> version, ret |-> done.ret,
                        held |-> manager]
        /\ UNCHANGED <<clock, store, trainVars, engineVars, serviceVars>>

\* The environment: a blob or sidecar file is truncated or damaged on disk
Damage ==
    \E version \in DOMAIN store, name \in StoreNames, kind \in {"blobs", "metas"} :
        /\ store[version][kind][name] \notin {Absent, Corrupt}
        /\ store' = [store EXCEPT ![version][kind][name] = Corrupt]
        /\ lastCall' = [op |-> "none"]
        /\ UNCHANGED <<manager, clock, trainVars, engineVars, serviceVars>>

NextStore ==
    \/ Tick
    \/ CreateVersion
    \/ SaveArtifact
    \/ LoadArtifact
    \/ LoadAll
    \/ CleanupOldVersions
    \/ Damage

SpecStore == InitStore /\ [][NextStore]_vars

-----------------------------------------------------------------------------
(* train_all: one step per call on the artifact store *)

RunObj(r) == IF r = 1 THEN "run1" ELSE "run2"

\* manager.create_version()                                  (train_all.py:242)
TrainCreateVersion(r) ==
    /\ pc[r] = "start"
    /\ store' = Mkdir(store, create_version_name(clock))
    /\ runVersion' = [runVersion EXCEPT ![r] = create_version_name(clock)]
    /\ pc' = [pc EXCEPT ![r] = "embedding"]
    /\ lastCall' = [op |-> "create_version", ret |-> create_version_name(clock)]
    /\ UNCHANGED <<manager, clock, wrote, rebuildOut, serviceVars, engineVars>>

\* a save_artifact of the run, then on to the next step
TrainSave(r, name, next) ==
    /\ store' = save_artifact(store, name, RunObj(r), runVersion[r], RunObj(r))
    /\ wrote' = wrote \cup {<<r, runVersion[r]>>}
    /\ pc' = [pc EXCEPT ![r] = next]
    /\ lastCall' = [op |-> "save_artifact", name |-> name, version |-> runVersion[r],
                    obj |-> RunObj(r), metadata |-> RunObj(r)]
    /\ UNCHANGED <<manager, clock, runVersion, rebuildOut, serviceVars, engineVars>>

\* the run leaves the store alone and goes on to next
TrainSkip(r, next) ==
    /\ pc' = [pc EXCEPT ![r] = next]
    /\ lastCall' = [op |-> "none"]
    /\ UNCHANGED <<manager, clock, store, runVersion, wrote, rebuildOut, serviceVars, engineVars>>

\* [1/4] initialize() fails: return; else save "embedding_service"
TrainEmbedding(r) ==
    /\ pc[r] = "embedding"
    /\ \/ TrainSkip(r, "failed")
       \/ TrainSave(r, "embedding_service", "merchant")

\* [2/4] build_index, save "merchant_service"
TrainMerchant(r) ==
    /\ pc[r] = "merchant"
    /\ TrainSave(r, "merchant_service", "category")

\* [3/4] train and save "category_service"; skipped below 10 labelled rows;
\* train may raise, which ends the run
TrainCategory(r) ==
    /\ pc[r] = "category"
    /\ \/ TrainSave(r, "category_service", "anomaly")
       \/ TrainSkip(r, "anomaly")
       \/ TrainSkip(r, "failed")

\* [4/4] train and save "anomaly_service"; skipped below 10 DEBIT rows
TrainAnomaly(r) ==
    /\ pc[r] = "anomaly"
    /\ \/ TrainSave(r, "anomaly_service", "manifest")
       \/ TrainSkip(r, "manifest")
       \/ TrainSkip(r, "failed")

TrainManifest(r) ==
    /\ pc[r] = "manifest"
    /\ store' = save_manifest(store, runVersion[r], RunObj(r))
    /\ wrote' = wrote \cup {<<r, runVersion[r]>>}
    /\ pc' = [pc EXCEPT ![r] = "cleanup"]
    /\ lastCall' = [op |-> "save_manifest", version |-> runVersion[r]]
    /\ UNCHANGED <<manager, clock, runVersion, rebuildOut, serviceVars, engineVars>>

\* manager.cleanup_old_versions(keep=5)
TrainCleanup(r) ==
    /\ pc[r] = "cleanup"
    /\ \E failed \in SUBSET Range(to_remove(store, DefaultKeep)) :
        LET done == cleanup_old_versions(store, DefaultKeep, failed)
        IN  /\ store' = done.st
            /\ lastCall' = [op |-> "cleanup_old_versions", keep |-> DefaultKeep,
                            failed |-> failed, removed |-> done.removed]
    /\ pc' = [pc EXCEPT ![r] = "done"]
    /\ UNCHANGED <<manager, clock, runVersion, wrote, rebuildOut, serviceVars, engineVars>>

-----------------------------------------------------------------------------
(* rebuild_merchants *)

\* loaded is the bool load_all returns: when it is True the test
\* '"embedding_service" not in loaded' raises TypeError, so the save to the
\* latest version further down is never reached
rebuild_merchants(st) ==
    IF ~load_all(ArtifactManager, st, NoVersion, {}).ret
    THEN [out |-> "error: Embedding service not found", st |-> st]
    ELSE [out |-> "raise TypeError", st |-> st]

RebuildMerchants ==
    /\ rebuildOut' = rebuild_merchants(store).out
    /\ store' = rebuild_merchants(store).st
    /\ lastCall' = [op |-> "none"]
    /\ UNCHANGED <<manager, clock, pc, runVersion, wrote, serviceVars, engineVars>>

NextTrain ==
    \/ Tick
    \/ \E r \in Runs : TrainCreateVersion(r)
    \/ \E r \in Runs : TrainEmbedding(r)
    \/ \E r \in Runs : TrainMerchant(r)
    \/ \E r \in Runs : TrainCategory(r)
    \/ \E r \in Runs : TrainAnomaly(r)
    \/ \E r \in Runs : TrainManifest(r)
    \/ \E r \in Runs : TrainCleanup(r)
    \/ RebuildMerchants
    \/ CleanupOldVersions

SpecTrain == InitStore /\ [][NextTrain]_vars

-----------------------------------------------------------------------------
(* Calls on the AnomalyService instance *)

\* constructor arguments: the defaults, or a model and tables built elsewhere
AnomalyArgs ==
    {<<NoModel, EmptyDict, EmptyDict>>}
    \cup {<<Fitted(d), GroupStats(OneGroup(AnomalyMinRows), 1, Categories),
            GroupStats(OneGroup(AnomalyMinRows), 2, Merchants)>> : d \in DataIds}

TrainedAnomaly(d) ==
    anomaly_train(AnomalyService(NoModel, EmptyDict, EmptyDict),
                  [data |-> d, debit |-> OneGroup(AnomalyMinRows), credit |-> 0],
                  "ok").svc

\* states get_state has returned on instances of the class: freshly
\* constructed ones and ones trained on a data set
AnomalySavedStates ==
    {anom_get_state(AnomalyService(a[1], a[2], a[3])) : a \in AnomalyArgs}
    \cup {anom_get_state(TrainedAnomaly(d)) : d \in DataIds}

AnomConstruct ==
    /\ subject = "AnomalyService"
    /\ \E a \in AnomalyArgs :
        /\ anom' = AnomalyService(a[1], a[2], a[3])
        /\ anomReady' = FALSE
        /\ out' = [op |-> "AnomalyService"]
        /\ UNCHANGED <<storeVars, trainVars, engineVars, cat, catReady, subject, scoreIn>>

AnomTrain ==
    /\ subject = "AnomalyService"
    /\ \E d \in DataIds, debit \in 0..MaxRows, credit \in 0..MaxUnusable,
       lib \in {"ok", "fit_raises"} :
        LET done == anomaly_train(anom, [data |-> d, debit |-> OneGroup(debit),
                                         credit |-> credit], lib)
        IN  /\ anom' = done.svc
            /\ anomReady' = (anomReady \/ done.outcome = "ok")
            /\ out' = [op |-> "AnomalyService.train", usable |-> debit,
                       dropped |-> credit, outcome |-> done.outcome]
            /\ UNCHANGED <<storeVars, trainVars, engineVars, cat, catReady, subject, scoreIn>>

AnomGetState ==
    /\ subject = "AnomalyService"
    /\ out' = [op |-> "AnomalyService.get_state", state |-> anom_get_state(anom)]
    /\ UNCHANGED <<storeVars, trainVars, engineVars, anom, anomReady, cat, catReady, subject,
                   scoreIn>>

AnomLoadState ==
    /\ subject = "AnomalyService"
    /\ \E state \in AnomalySavedStates :
        /\ anom' = anom_load_state(anom, state)
        /\ anomReady' = (anomReady \/ state.trained)
        /\ out' = [op |-> "AnomalyService.load_state", trained |-> state.trained]
        /\ UNCHANGED <<storeVars, trainVars, engineVars, cat, catReady, subject, scoreIn>>

\* score rows
StrId(s) == [s |-> s]
IntId(n) == [n |-> n]
RowIds == {StrId("a"), IntId(7)}
Directions == {"DEBIT", "CREDIT"}
Amounts == {5, 5000}
\* the batches of the score runs: rows of one category, without a merchant
Rows == [id : RowIds, direction : Directions, amount : Amounts,
         category : {"Groceries"}, merchant : {Missing}]
IgnoreLists == {{}, {"a"}, {"7"}}
\* decision_function values, in hundredths: scores 0, 59, 60, 80 and 100
Decisions == {60, -9, -10, -30, -60}

\* a batch of k rows, an ignore list, the model's answer for each row
ScoreInputs(k) ==
    {[df |-> df, ignore_ids |-> ig, decisions |-> dec] :
        df \in [1..k -> Rows], ig \in IgnoreLists, dec \in [1..k -> Decisions]}

\* the score calls made in the lifecycle runs
ProbeInputs ==
    {[df |-> << >>, ignore_ids |-> {}, decisions |-> << >>]}
    \cup {[df |-> <<[id |-> StrId("a"), direction |-> dir, amount |-> 5,
                      category |-> "Groceries", merchant |-> Missing]>>,
           ignore_ids |-> {}, decisions |-> <<-30>>] : dir \in Directions}

Score(input) ==
    LET done == score(anom, input.df, input.ignore_ids, input.decisions)
    IN  /\ Len(input.decisions) = Len(input.df)
        /\ scoreIn' = input
        /\ out' = [op |-> "AnomalyService.score", outcome |-> done.outcome,
                   results |-> done.results, consulted |-> done.consulted]
        /\ UNCHANGED <<storeVars, trainVars, engineVars, anom, anomReady, cat, catReady, subject>>

AnomScore ==
    /\ subject = "AnomalyService"
    /\ \E input \in ProbeInputs : Score(input)

-----------------------------------------------------------------------------
(* Calls on the CategoryService instance *)

CategoryArgs ==
    {<<NoExtractor, NoModel, 0>>, <<FeatureExtractor, NoModel, 0>>}
    \cup {<<FittedExtractor(d), Fitted(d), d>> : d \in DataIds}

TrainedCategory(d) ==
    category_train(CategoryService(NoExtractor, NoModel, 0),
                   [data |-> d, labelled |-> CategoryMinRows, unlabelled |-> 0],
                   "ok").svc

CategorySavedStates ==
    {cat_get_state(CategoryService(a[1], a[2], a[3])) : a \in CategoryArgs}
    \cup {cat_get_state(TrainedCategory(d)) : d \in DataIds}

CatConstruct ==
    /\ subject = "CategoryService"
    /\ \E a \in CategoryArgs :
        /\ cat' = CategoryService(a[1], a[2], a[3])
        /\ catReady' = FALSE
        /\ out' = [op |-> "CategoryService"]
        /\ UNCHANGED <<storeVars, trainVars, engineVars, anom, anomReady, subject, scoreIn>>

CatTrain ==
    /\ subject = "CategoryService"
    /\ \E d \in DataIds, labelled \in 0..MaxRows, unlabelled \in 0..MaxUnusable,
       lib \in LibOutcomes :
        LET done == category_train(cat, [data |-> d, labelled |-> labelled,
                                         unlabelled |-> unlabelled], lib)
        IN  /\ cat' = done.svc
            /\ catReady' = (catReady \/ done.outcome = "ok")
            /\ out' = [op |-> "CategoryService.train", usable |-> labelled,
                       dropped |-> unlabelled, outcome |-> done.outcome]
            /\ UNCHANGED <<storeVars, trainVars, engineVars, anom, anomReady, subject, scoreIn>>

CatPredict ==
    /\ subject = "CategoryService"
    /\ \E n \in 0..MaxBatch :
        LET done == predict(cat, n)
        IN  /\ out' = [op |-> "CategoryService.predict", outcome |-> done.outcome,
                       results |-> done.results]
            /\ UNCHANGED <<storeVars, trainVars, engineVars, anom, anomReady, cat, catReady,
                           subject, scoreIn>>

CatGetState ==
    /\ subject = "CategoryService"
    /\ out' = [op |-> "CategoryService.get_state", state |-> cat_get_state(cat)]
    /\ UNCHANGED <<storeVars, trainVars, engineVars, anom, anomReady, cat, catReady, subject,
                   scoreIn>>

CatLoadState ==
    /\ subject = "CategoryService"
    /\ \E state \in CategorySavedStates :
        /\ cat' = cat_load_state(cat, state)
        /\ catReady' = (catReady \/ (state.trained /\ state.model # NoModel))
        /\ out' = [op |-> "CategoryService.load_state", trained |-> state.trained]
        /\ UNCHANGED <<storeVars, trainVars, engineVars, anom, anomReady, subject, scoreIn>>

NextAnomaly ==
    \/ AnomConstruct
    \/ AnomTrain
    \/ AnomScore
    \/ AnomGetState
    \/ AnomLoadState

NextCategory ==
    \/ CatConstruct
    \/ CatTrain
    \/ CatPredict
    \/ CatGetState
    \/ CatLoadState

NextLifecycle == NextAnomaly \/ NextCategory

SpecLifecycle == InitLifecycle /\ [][NextLifecycle]_vars

-----------------------------------------------------------------------------
(* score as a function of its arguments: every instance the class can be   *)
(* in after construction or training, every batch, every answer of the     *)
(* outlier model                                                           *)

InitScore ==
    /\ clock = 0
    /\ manager = ArtifactManager
    /\ store = << >>
    /\ lastCall = [op |-> "none"]
    /\ pc = [r \in Runs |-> "start"]
    /\ runVersion = [r \in Runs |-> NoVersion]
    /\ wrote = {}
    /\ rebuildOut = "none"
    /\ anom \in {TrainedAnomaly(d) : d \in DataIds}
    /\ anomReady = anom.trained
    /\ cat = CategoryService(NoExtractor, NoModel, 0)
    /\ catReady = FALSE
    /\ \E k \in 0..MaxBatch : scoreIn \in ScoreInputs(k)
    /\ out = [op |-> "none"]
    /\ subject = "AnomalyService"
    /\ InitEngineVars

ScoreBatch ==
    /\ out.op = "none"
    /\ Score(scoreIn)

SpecScore == InitScore /\ [][ScoreBatch]_vars

-----------------------------------------------------------------------------
(* The baseline tables: train on a frame, then score one record against    *)
(* the tables the training left                                            *)

MaxGroup == 3         \* DEBIT rows of one (category, merchant) cell: 0..MaxGroup

Frames == [Cells -> 0..MaxGroup]

\* an instance as an earlier training run left it: every group has an entry
PriorFrame == [c \in Cells |-> MinGroupRows]

InitBaseline ==
    /\ clock = 0
    /\ manager = ArtifactManager
    /\ store = << >>
    /\ lastCall = [op |-> "none"]
    /\ pc = [r \in Runs |-> "start"]
    /\ runVersion = [r \in Runs |-> NoVersion]
    /\ wrote = {}
    /\ rebuildOut = "none"
    /\ anom \in {AnomalyService(NoModel, EmptyDict, EmptyDict),
                 anomaly_train(AnomalyService(NoModel, EmptyDict, EmptyDict),
                               [data |-> 1, debit |-> PriorFrame, credit |-> 0],
                               "ok").svc}
    /\ anomReady = anom.trained
    /\ cat = CategoryService(NoExtractor, NoModel, 0)
    /\ catReady = FALSE
    /\ scoreIn = [df |-> << >>, ignore_ids |-> {}, decisions |-> << >>]
    /\ out = [op |-> "none"]
    /\ subject = "AnomalyService"
    /\ InitEngineVars

\* train(df) on a frame of DEBIT rows by cell and some CREDIT rows
BaselineTrain ==
    /\ out.op = "none"
    /\ \E debit \in Frames, credit \in 0..MaxUnusable, lib \in {"ok", "fit_raises"} :
        LET done == anomaly_train(anom, [data |-> 2, debit |-> debit,
                                         credit |-> credit], lib)
        IN  /\ anom' = done.svc
            /\ anomReady' = (anomReady \/ done.outcome = "ok")
            /\ out' = [op |-> "AnomalyService.train", usable |-> RowCount(debit),
                       dropped |-> credit, outcome |-> done.outcome,
                       debit |-> debit,
                       before |-> [category |-> DOMAIN anom.category_stats,
                                   merchant |-> DOMAIN anom.merchant_stats]]
            /\ UNCHANGED <<storeVars, trainVars, engineVars, cat, catReady, subject,
                           scoreIn>>

BaselineAmounts == {500, 50000}

BaselineRows ==
    [id : {StrId("a")}, direction : Directions, amount : BaselineAmounts,
     category : Categories, merchant : Merchants]

\* score(df) on one record, after a training run that succeeded
BaselineScore ==
    /\ out.op = "AnomalyService.train"
    /\ out.outcome = "ok"
    /\ \E row \in BaselineRows :
        Score([df |-> <<row>>, ignore_ids |-> {}, decisions |-> <<-30>>])

NextBaseline == BaselineTrain \/ BaselineScore

SpecBaseline == InitBaseline /\ [][NextBaseline]_vars

-----------------------------------------------------------------------------
(* Calls on a MerchantService instance and the EmbeddingService it shares  *)

MaxNames == 2         \* canonical names of a list: 0..MaxNames
MaxTopK == 2          \* search is called with top_k in 0..MaxTopK

DefaultMinScore == 30     \* normalise(min_score=0.3), in hundredths

NameTexts == {<<"Tesco">>, <<"Ltd">>}
NameLists == UNION {[1..n -> NameTexts] : n \in 0..MaxNames}
Queries == {<< >>, <<"Tesco">>, <<"Tesco", "5678">>, <<"Ltd">>}
MerchantHints == {<< >>, <<"Amazon">>}
DescriptionHints == {<< >>, <<"5678">>}
MinScores == {0, DefaultMinScore, 100}

\* the flags the imports can leave; scikit-learn is a hard dependency of the
\* other services
LibFlags == [st : BOOLEAN, tfidf : {TRUE}, faiss : BOOLEAN]

\* the corpus train_all fits the vectorizer on
Corpus == <<<<"Tesco">>, <<"Amazon">>>>

\* engines as train_all leaves them, and one whose vectorizer was never fitted
ReadyEngines(lib) ==
    LET first == initialize(EmbeddingService(TRUE, NoTfidf), lib, "ok").e
    IN  {first, IF first.using_tfidf THEN fit_tfidf(first, Corpus).e ELSE first}

InitMerchant ==
    /\ clock = 0
    /\ manager = ArtifactManager
    /\ store = << >>
    /\ lastCall = [op |-> "none"]
    /\ pc = [r \in Runs |-> "start"]
    /\ runVersion = [r \in Runs |-> NoVersion]
    /\ wrote = {}
    /\ rebuildOut = "none"
    /\ anom = AnomalyService(NoModel, EmptyDict, EmptyDict)
    /\ anomReady = FALSE
    /\ cat = CategoryService(NoExtractor, NoModel, 0)
    /\ catReady = FALSE
    /\ scoreIn = [df |-> << >>, ignore_ids |-> {}, decisions |-> << >>]
    /\ out = [op |-> "none"]
    /\ subject = "MerchantService"
    /\ libs \in LibFlags
    /\ emb \in ReadyEngines(libs)
    /\ embReady = TRUE
    /\ \E has_engine \in BOOLEAN : merch = MerchantService(has_engine, << >>, libs)
    /\ services = None

\* A search or normalise call that changed nothing leads to a state from
\* which the same calls can follow as from the state before it; the runs
\* are followed no further from there.
Settled ==
    out.op \in {"MerchantService.search", "MerchantService.normalise"} => out.changed

MerchBuildIndex ==
    /\ Settled
    /\ \E names \in NameLists :
        \E done \in {build_index(merch, emb, names, libs)} :
            /\ merch' = done.svc
            /\ emb' = done.e
            /\ out' = [op |-> "MerchantService.build_index", outcome |-> done.outcome]
            /\ UNCHANGED <<storeVars, trainVars, anom, anomReady, cat, catReady,
                           subject, scoreIn, libs, embReady, services>>

MerchGetState ==
    /\ Settled
    /\ out' = [op |-> "MerchantService.get_state", state |-> merch_get_state(merch)]
    /\ UNCHANGED <<storeVars, trainVars, anom, anomReady, cat, catReady,
                   subject, scoreIn, engineVars>>

\* load_state of the state a get_state call has just returned, or of the
\* state of an instance that built its index with this engine
MerchLoadState ==
    /\ Settled
    /\ \E state \in {merch_get_state(built.svc) :
                        built \in {b \in {build_index(MerchantService(TRUE, << >>, libs),
                                                      emb, names, libs) :
                                              names \in NameLists} :
                                        b.outcome = "return"}}
                 \cup (IF out.op = "MerchantService.get_state" THEN {out.state}
                       ELSE {}) :
        /\ merch' = merch_load_state(merch, state, libs)
        /\ out' = [op |-> "MerchantService.load_state", outcome |-> "return"]
        /\ UNCHANGED <<storeVars, trainVars, anom, anomReady, cat, catReady,
                       subject, scoreIn, libs, emb, embReady, services>>

MerchSearch ==
    /\ Settled
    /\ \E query \in Queries, hint_merchant \in MerchantHints,
       hint_description \in DescriptionHints, top_k \in 0..MaxTopK :
        \E done \in {search(merch, emb, query, hint_merchant, hint_description, top_k)} :
            /\ emb' = done.e
            /\ out' = [op |-> "MerchantService.search", outcome |-> done.outcome,
                       top_k |-> top_k, results |-> done.results,
                       indices |-> done.indices,
                       similarities |-> done.similarities,
                       changed |-> done.e # emb]
            /\ UNCHANGED <<storeVars, trainVars, anom, anomReady, cat, catReady,
                           subject, scoreIn, libs, embReady, merch, services>>

MerchNormalise ==
    /\ Settled
    /\ \E raw \in Queries, hint_merchant \in MerchantHints, min_score \in MinScores :
        \E done \in {normalise(merch, emb, raw, hint_merchant, << >>, min_score)} :
            /\ emb' = done.e
            /\ out' = [op |-> "MerchantService.normalise", outcome |-> done.outcome,
                       raw |-> raw, hint_merchant |-> hint_merchant,
                       min_score |-> min_score,
                       result |-> IF done.outcome = "return" THEN done.result
                                  ELSE None,
                       changed |-> done.e # emb]
            /\ UNCHANGED <<storeVars, trainVars, anom, anomReady, cat, catReady,
                           subject, scoreIn, libs, embReady, merch, services>>

NextMerchant ==
    \/ MerchBuildIndex
    \/ MerchGetState
    \/ MerchLoadState
    \/ MerchSearch
    \/ MerchNormalise

SpecMerchant == InitMerchant /\ [][NextMerchant]_vars

-----------------------------------------------------------------------------
(* Calls on an EmbeddingService instance                                    *)

MaxTexts == 2         \* texts of one embed or fit_tfidf call: 0..MaxTexts

EngineTexts == {<< >>, <<"Tesco">>, <<"Ltd">>}
TextLists == UNION {[1..n -> EngineTexts] : n \in 0..MaxTexts}

\* what the SentenceTransformer constructor does when initialize calls it
Loads == {"ok", "raises"}

InitEngine ==
    /\ clock = 0
    /\ manager = ArtifactManager
    /\ store = << >>
    /\ lastCall = [op |-> "none"]
    /\ pc = [r \in Runs |-> "start"]
    /\ runVersion = [r \in Runs |-> NoVersion]
    /\ wrote = {}
    /\ rebuildOut = "none"
    /\ anom = AnomalyService(NoModel, EmptyDict, EmptyDict)
    /\ anomReady = FALSE
    /\ cat = CategoryService(NoExtractor, NoModel, 0)
    /\ catReady = FALSE
    /\ scoreIn = [df |-> << >>, ignore_ids |-> {}, decisions |-> << >>]
    /\ out = [op |-> "none"]
    /\ subject = "EmbeddingService"
    /\ libs \in LibFlags
    /\ \E use_tfidf_fallback \in BOOLEAN,
          tfidf_vectorizer \in {NoTfidf, FittedTfidf({"tesco"})} :
        emb = EmbeddingService(use_tfidf_fallback, tfidf_vectorizer)
    /\ embReady = FALSE
    /\ merch = None
    /\ services = None

EngInitialize ==
    \E load \in Loads :
        \E done \in {initialize(emb, libs, load)} :
            /\ emb' = done.e
            /\ embReady' = (embReady \/ done.ret)
            /\ out' = [op |-> "EmbeddingService.initialize", load |-> load,
                       ret |-> done.ret, before |-> emb]
            /\ UNCHANGED <<storeVars, trainVars, anom, anomReady, cat, catReady,
                           subject, scoreIn, libs, merch, services>>

EngEmbed ==
    \E texts \in TextLists :
        \E done \in {embed(emb, texts)} :
            /\ emb' = done.e
            /\ out' = [op |-> "EmbeddingService.embed", texts |-> texts,
                       outcome |-> done.outcome, vectors |-> done.vectors,
                       before |-> emb]
            /\ UNCHANGED <<storeVars, trainVars, anom, anomReady, cat, catReady,
                           subject, scoreIn, libs, embReady, merch, services>>

EngFitTfidf ==
    \E texts \in TextLists :
        \E done \in {fit_tfidf(emb, texts)} :
            /\ emb' = done.e
            /\ out' = [op |-> "EmbeddingService.fit_tfidf", texts |-> texts,
                       outcome |-> done.outcome, before |-> emb]
            /\ UNCHANGED <<storeVars, trainVars, anom, anomReady, cat, catReady,
                           subject, scoreIn, libs, embReady, merch, services>>

\* x.get_state() followed by from_state of the state it returned; the
\* instance under study is the new one from then on
EngRestore ==
    LET state == emb_get_state(emb)
    IN  /\ emb' = from_state(state)
        /\ out' = [op |-> "EmbeddingService.from_state", state |-> state,
                   before |-> emb]
        /\ UNCHANGED <<storeVars, trainVars, anom, anomReady, cat, catReady,
                       subject, scoreIn, libs, embReady, merch, services>>

NextEngine ==
    \/ EngInitialize
    \/ EngEmbed
    \/ EngFitTfidf
    \/ EngRestore

SpecEngine == InitEngine /\ [][NextEngine]_vars

-----------------------------------------------------------------------------
(* Serving: load_models at startup over the latest version directory, then  *)
(* the v1 requests on the instances it registered                           *)

Malformed == "malformed"  \* the file deserializes to an object that is not a
                          \* state dict (state.get raises AttributeError)

\* the version directory a train_all run left
ServedVersion == Strftime(0)

\* how train_all ran: with the semantic model, or with the vectorizer
Trainings == {"semantic", "tfidf"}

TrainingLib(training) == [st |-> training = "semantic", tfidf |-> TRUE, faiss |-> FALSE]

\* train_all steps 1 and 2: the engine and the merchant index it saves
TrainedEngine(training) ==
    LET first == initialize(EmbeddingService(TRUE, NoTfidf), TrainingLib(training), "ok").e
    IN  IF first.using_tfidf THEN fit_tfidf(first, Corpus).e ELSE first

TrainedMerchant(training) ==
    build_index(MerchantService(TRUE, << >>, TrainingLib(training)),
                TrainedEngine(training), Corpus, TrainingLib(training)).svc

\* the state dicts train_all saves, by artifact and by how it ran
SavedStates ==
    [name \in ArtifactNames |-> [training \in Trainings |->
        IF name = "embedding_service" THEN emb_get_state(TrainedEngine(training))
        ELSE IF name = "merchant_service" THEN merch_get_state(TrainedMerchant(training))
        ELSE IF name = "category_service" THEN cat_get_state(TrainedCategory(1))
        ELSE anom_get_state(TrainedAnomaly(1))]]

\* how the run that wrote a blob trained: run 1 of the train runs had the
\* semantic model, run 2 the vectorizer
TrainingOf(obj) ==
    IF obj = RunObj(1) THEN "semantic"
    ELSE IF obj = RunObj(2) THEN "tfidf"
    ELSE obj

\* what joblib.load gives for a blob train_all wrote
StateOf(name, obj) == SavedStates[name][TrainingOf(obj)]

\* the condition the files of one artifact are found in at startup
FileConditions ==
    {"good", "missing", "unreadable", "unreadable sidecar", "malformed"}

BlobIn(condition, training) ==
    IF condition = "missing" THEN Absent
    ELSE IF condition = "unreadable" THEN Corrupt
    ELSE IF condition = "malformed" THEN Malformed
    ELSE training

MetaIn(condition) ==
    IF condition = "missing" THEN Absent
    ELSE IF condition = "unreadable sidecar" THEN Corrupt
    ELSE "metaA"

ServedDir(conditions, training) ==
    [blobs |-> [n \in ArtifactNames |-> BlobIn(conditions[n], training)],
     metas |-> [n \in ArtifactNames |-> MetaIn(conditions[n])],
     manifest |-> "manifest"]

NoServices(version) ==
    [version |-> version, embedding |-> FALSE, merchant |-> FALSE,
     category |-> FALSE, anomaly |-> FALSE, loaded |-> FALSE]

\* one load step of load_models: 'got' is what load_artifact did; the step
\* raises when load_artifact raises or when the object is not a state dict
LoadStep(got) ==
    IF got.outcome = "raise" THEN "raise"
    ELSE IF got.obj = None THEN "skip"
    ELSE IF got.obj = Malformed THEN "raise"
    ELSE "load"

NoneLoaded(version) ==
    [services |-> NoServices(version), emb |-> None, merch |-> None,
     cat |-> None, anom |-> None]

\* the one element of a singleton set: {f(x) : x \in {e}} evaluates e once
Only(S) == CHOOSE x \in S : TRUE

\* main.py:81-86: from_state, then initialize() if the restored engine is
\* not initialized; the engine is registered whatever initialize returned
LoadEmbedding(got, lib, load, r) ==
    LET restored == from_state(StateOf("embedding_service", got.obj))
    IN  IF LoadStep(got) # "load" THEN r
        ELSE [r EXCEPT !.services.embedding = TRUE,
                       !.emb = IF is_initialized(restored) THEN restored
                               ELSE initialize(restored, lib, load).e]

\* main.py:89-94
LoadMerchant(got, lib, r) ==
    IF LoadStep(got) # "load" \/ ~r.services.embedding THEN r
    ELSE [r EXCEPT !.services.merchant = TRUE,
                   !.merch = merch_load_state(
                                 MerchantService(TRUE, << >>, lib),
                                 StateOf("merchant_service", got.obj), lib)]

\* main.py:97-102
LoadCategory(got, r) ==
    IF LoadStep(got) # "load" THEN r
    ELSE [r EXCEPT !.services.category = TRUE,
                   !.cat = cat_load_state(
                               CategoryService(NoExtractor, NoModel, 0),
                               StateOf("category_service", got.obj))]

\* main.py:105-110
LoadAnomaly(got, r) ==
    IF LoadStep(got) # "load" THEN r
    ELSE [r EXCEPT !.services.anomaly = TRUE,
                   !.anom = anom_load_state(
                                AnomalyService(NoModel, EmptyDict, EmptyDict),
                                StateOf("anomaly_service", got.obj))]

\* load_models(): the services dict (True where an instance is registered)
\* and the instances.  One try block holds the four steps: the first step
\* that raises ends the loading, with what was registered before it.
load_models(st, lib, load) ==
    Only({
        LET embGot == got["embedding_service"]
            merchGot == got["merchant_service"]
            catGot == got["category_service"]
            anomGot == got["anomaly_service"]
            one == LoadEmbedding(embGot, lib, load, NoneLoaded(got.version))
            two == LoadMerchant(merchGot, lib, one)
            three == LoadCategory(catGot, two)
            four == LoadAnomaly(anomGot, three)
        IN  IF got.version = NoVersion THEN NoneLoaded(got.version)
            ELSE IF LoadStep(embGot) = "raise" THEN NoneLoaded(got.version)
            ELSE IF LoadStep(merchGot) = "raise" THEN one
            ELSE IF LoadStep(catGot) = "raise" THEN two
            ELSE IF LoadStep(anomGot) = "raise" THEN three
            ELSE [four EXCEPT !.services.loaded = TRUE]
        : got \in {[n \in ArtifactNames \cup {"version"} |->
                      IF n = "version" THEN get_latest_version(st)
                      ELSE load_artifact(st, n, get_latest_version(st))]}})

InitServe ==
    /\ clock = 0
    /\ manager = ArtifactManager
    /\ \/ store = << >>
       \/ \E conditions \in [ArtifactNames -> FileConditions], training \in Trainings :
            store = [v \in {ServedVersion} |-> ServedDir(conditions, training)]
    /\ lastCall = [op |-> "none"]
    /\ pc = [r \in Runs |-> "start"]
    /\ runVersion = [r \in Runs |-> NoVersion]
    /\ wrote = {}
    /\ rebuildOut = "none"
    /\ anom = None
    /\ anomReady = FALSE
    /\ cat = None
    /\ catReady = FALSE
    /\ scoreIn = [df |-> << >>, ignore_ids |-> {}, decisions |-> << >>]
    /\ out = [op |-> "none"]
    /\ subject = "services"
    /\ libs \in LibFlags
    /\ emb = None
    /\ embReady = FALSE
    /\ merch = None
    /\ services = None

\* the instances the requests share
Shared == <<emb, merch, cat, anom>>

ServeOps == {"v1_merchants_normalise", "v1_categories_predict", "v1_anomalies_score"}

\* A request that changed no instance leads to a state from which the same
\* requests can follow as from the state before it; the runs are followed
\* no further from there.
Quiet == out.op \in ServeOps => out.shared # Shared

\* lifespan(): _services = load_models()
LoadModels ==
    /\ out.op = "none"
    /\ \E load \in Loads :
        \E done \in {load_models(store, libs, load)} :
            /\ services' = done.services
            /\ emb' = done.emb
            /\ embReady' = (done.services.embedding /\ is_initialized(done.emb))
            /\ merch' = done.merch
            /\ cat' = done.cat
            /\ catReady' = done.services.category
            /\ anom' = done.anom
            /\ anomReady' = done.services.anomaly
            /\ out' = [op |-> "load_models", load |-> load]
            /\ UNCHANGED <<storeVars, trainVars, subject, scoreIn, libs>>

\* POST /v1/merchants/normalise with one item
ServeNormalise ==
    /\ out.op # "none"
    /\ Quiet
    /\ \E raw \in Queries, hint_merchant \in MerchantHints :
        IF ~services.merchant
        THEN /\ out' = [op |-> "v1_merchants_normalise", outcome |-> "503",
                        shared |-> Shared]
             /\ UNCHANGED <<storeVars, trainVars, anom, anomReady, cat, catReady,
                            subject, scoreIn, engineVars>>
        ELSE \E done \in {normalise(merch, emb, raw, hint_merchant, << >>,
                                   DefaultMinScore)} :
                 /\ emb' = done.e
                 /\ out' = [op |-> "v1_merchants_normalise",
                            outcome |-> done.outcome, raw |-> raw,
                            hint_merchant |-> hint_merchant,
                            result |-> IF done.outcome = "return" THEN done.result
                                       ELSE None,
                            shared |-> Shared]
                 /\ UNCHANGED <<storeVars, trainVars, anom, anomReady, cat, catReady,
                                subject, scoreIn, libs, embReady, merch, services>>

\* POST /v1/categories/predict
ServePredict ==
    /\ out.op # "none"
    /\ Quiet
    /\ \E n \in 0..MaxBatch :
        /\ out' = IF ~services.category
                  THEN [op |-> "v1_categories_predict", outcome |-> "503",
                        shared |-> Shared]
                  ELSE [op |-> "v1_categories_predict",
                        outcome |-> predict(cat, n).outcome,
                        results |-> predict(cat, n).results, shared |-> Shared]
        /\ UNCHANGED <<storeVars, trainVars, anom, anomReady, cat, catReady,
                       subject, scoreIn, engineVars>>

\* POST /v1/anomalies/score
ServeScore ==
    /\ out.op # "none"
    /\ Quiet
    /\ \E input \in ProbeInputs :
        /\ scoreIn' = input
        /\ out' = IF ~services.anomaly
                  THEN [op |-> "v1_anomalies_score", outcome |-> "503",
                        shared |-> Shared]
                  ELSE LET done == score(anom, input.df, input.ignore_ids,
                                         input.decisions)
                       IN  [op |-> "v1_anomalies_score", outcome |-> done.outcome,
                            results |-> done.results, shared |-> Shared]
        /\ UNCHANGED <<storeVars, trainVars, anom, anomReady, cat, catReady,
                       subject, engineVars>>

NextServe ==
    \/ LoadModels
    \/ ServeNormalise
    \/ ServePredict
    \/ ServeScore

SpecServe == InitServe /\ [][NextServe]_vars

-----------------------------------------------------------------------------
(* train_all runs next to a start of the service: both use the models      *)
(* directory, the service reads it once, in load_models                    *)

InitDeploy ==
    /\ InitServe
    /\ store = << >>
    /\ libs = TrainingLib("semantic")

NextDeploy ==
    \/ Tick
    \/ \E r \in Runs : TrainCreateVersion(r)
    \/ \E r \in Runs : TrainEmbedding(r)
    \/ \E r \in Runs : TrainMerchant(r)
    \/ \E r \in Runs : TrainCategory(r)
    \/ \E r \in Runs : TrainAnomaly(r)
    \/ \E r \in Runs : TrainManifest(r)
    \/ \E r \in Runs : TrainCleanup(r)
    \/ LoadModels

SpecDeploy == InitDeploy /\ [][NextDeploy]_vars

-----------------------------------------------------------------------------
(* The registry replaced while requests are served: _services is a module  *)
(* global, the handlers run in worker threads and read it through          *)
(* get_services() once in _check_model_loaded and once more to fetch the   *)
(* instance                                                                *)

\* the models directory a completed train_all run left
ServedStore ==
    [v \in {ServedVersion} |->
        ServedDir([n \in ArtifactNames |-> "good"], "semantic")]

\* the service after its startup on ServedStore
InitSwap ==
    /\ clock = 0
    /\ manager = ArtifactManager
    /\ store = ServedStore
    /\ lastCall = [op |-> "none"]
    /\ pc = [r \in Runs |-> "start"]
    /\ runVersion = [r \in Runs |-> NoVersion]
    /\ wrote = {}
    /\ rebuildOut = "none"
    /\ scoreIn = [df |-> << >>, ignore_ids |-> {}, decisions |-> << >>]
    /\ out = [op |-> "none"]
    /\ subject = "services"
    /\ libs = TrainingLib("semantic")
    /\ \E done \in {load_models(ServedStore, TrainingLib("semantic"), "ok")} :
        /\ services = done.services
        /\ emb = done.emb
        /\ embReady = (done.services.embedding /\ is_initialized(done.emb))
        /\ merch = done.merch
        /\ cat = done.cat
        /\ catReady = done.services.category
        /\ anom = done.anom
        /\ anomReady = done.services.anomaly

\* the dict get_services() returns and the instances it holds
Bundle == [services |-> services, instances |-> Shared]

\* _services = load_models() run again: the name is bound to the new dict in
\* one assignment, after load_models has returned
Replace ==
    \E load \in Loads :
        \E done \in {load_models(store, libs, load)} :
            /\ services' = done.services
            /\ emb' = done.emb
            /\ embReady' = (done.services.embedding /\ is_initialized(done.emb))
            /\ merch' = done.merch
            /\ cat' = done.cat
            /\ catReady' = done.services.category
            /\ anom' = done.anom
            /\ anomReady' = done.services.anomaly
            /\ UNCHANGED <<storeVars, trainVars, subject, scoreIn, libs, out>>

\* POST /v1/merchants/normalise, first read: _check_model_loaded("merchant")
RequestCheck ==
    /\ out.op # "checked"
    /\ out' = IF ~services.merchant
              THEN [op |-> "v1_merchants_normalise", outcome |-> "503",
                    checkedBy |-> Bundle, servedBy |-> Bundle]
              ELSE [op |-> "checked", checkedBy |-> Bundle]
    /\ UNCHANGED <<storeVars, trainVars, anom, anomReady, cat, catReady,
                   subject, scoreIn, engineVars>>

\* second read: get_services()["merchant"], then normalise on one item; on a
\* dict without the instance the method call raises AttributeError
RequestServe ==
    /\ out.op = "checked"
    /\ \E raw \in Queries, hint_merchant \in MerchantHints :
        IF ~services.merchant
        THEN /\ out' = [op |-> "v1_merchants_normalise", outcome |-> "AttributeError",
                        checkedBy |-> out.checkedBy, servedBy |-> Bundle]
             /\ UNCHANGED <<storeVars, trainVars, anom, anomReady, cat, catReady,
                            subject, scoreIn, engineVars>>
        ELSE \E done \in {normalise(merch, emb, raw, hint_merchant, << >>,
                                   DefaultMinScore)} :
                 /\ emb' = done.e
                 /\ out' = [op |-> "v1_merchants_normalise",
                            outcome |-> done.outcome,
                            checkedBy |-> out.checkedBy, servedBy |-> Bundle]
                 /\ UNCHANGED <<storeVars, trainVars, anom, anomReady, cat, catReady,
                                subject, scoreIn, libs, embReady, merch, services>>

NextSwap ==
    \/ Tick
    \/ TrainCreateVersion(1)
    \/ TrainEmbedding(1)
    \/ TrainMerchant(1)
    \/ TrainCategory(1)
    \/ TrainAnomaly(1)
    \/ TrainManifest(1)
    \/ TrainCleanup(1)
    \/ Replace
    \/ RequestCheck
    \/ RequestServe

SpecSwap == InitSwap /\ [][NextSwap]_vars

-----------------------------------------------------------------------------
(* predict as a function of the probabilities the model gives for one row   *)

MaxClasses == 3       \* classes of the label encoder: 1..MaxClasses
MaxPredictK == 3      \* predict is called with top_k in 1..MaxPredictK

MaxParts == 5         \* a probability is one of MaxParts + 1 levels between 0 and 1

ProbaStep == 100 \div MaxParts    \* in hundredths

\* label_encoder.classes_: the category names in sorted order
ClassNames == <<"Bills", "Food", "Rent", "Travel", "Utilities">>

\* the rows predict_proba can return for n classes: they sum to 1
RECURSIVE ProbaRows(_, _)
ProbaRows(n, total) ==
    IF n = 1 THEN {<<total>>}
    ELSE UNION {{Append(row, p * ProbaStep) :
                    row \in ProbaRows(n - 1, total - p * ProbaStep)} :
                p \in 0..(total \div ProbaStep)}

\* categoriser.py:165-183 for one row: top, chosen, confidence
predict_row(proba, top_k) ==
    LET top_indices == SliceTo(OrderDesc(proba, 1..Len(proba), FALSE), top_k)
    IN  [top |-> [n \in 1..Len(top_indices) |->
                    [category |-> ClassNames[top_indices[n]],
                     prob |-> proba[top_indices[n]]]],
         top_indices |-> top_indices,
         chosen |-> ClassNames[top_indices[1]],
         confidence |-> proba[top_indices[1]]]

InitPredict ==
    /\ clock = 0
    /\ manager = ArtifactManager
    /\ store = << >>
    /\ lastCall = [op |-> "none"]
    /\ pc = [r \in Runs |-> "start"]
    /\ runVersion = [r \in Runs |-> NoVersion]
    /\ wrote = {}
    /\ rebuildOut = "none"
    /\ anom = AnomalyService(NoModel, EmptyDict, EmptyDict)
    /\ anomReady = FALSE
    /\ cat = TrainedCategory(1)
    /\ catReady = TRUE
    /\ \E n \in 1..MaxClasses, top_k \in 1..MaxPredictK :
        \E proba \in ProbaRows(n, 100) :
            scoreIn = [proba |-> proba, top_k |-> top_k]
    /\ out = [op |-> "none"]
    /\ subject = "CategoryService"
    /\ InitEngineVars

PredictRow ==
    /\ out.op = "none"
    /\ \E done \in {predict_row(scoreIn.proba, scoreIn.top_k)} :
        out' = [op |-> "CategoryService.predict", outcome |-> "return",
                top |-> done.top, top_indices |-> done.top_indices,
                chosen |-> done.chosen, confidence |-> done.confidence]
    /\ UNCHANGED <<storeVars, trainVars, engineVars, anom, anomReady, cat, catReady,
                   subject, scoreIn>>

SpecPredict == InitPredict /\ [][PredictRow]_vars

-----------------------------------------------------------------------------
Next == NextStore \/ NextTrain \/ NextLifecycle

Spec == Init /\ [][Next]_vars

-----------------------------------------------------------------------------
(* C1: for every keep >= 0, cleanup_old_versions(keep) leaves exactly the   *)
(* min(keep, n) lexicographically greatest versions, untouched, and returns *)
(* the number of versions it deleted.                                       *)
C1_CleanupKeepsNewest ==
    [][lastCall'.op = "cleanup_old_versions" =>
        LET n == Cardinality(DOMAIN store)
            keep == lastCall'.keep
            sorted == Sorted(DOMAIN store)
            newest == {sorted[i] : i \in (n - Min(keep, n) + 1)..n}
        IN  /\ Cardinality(DOMAIN store') = Min(keep, n)
            /\ DOMAIN store' = newest
            /\ \A v \in DOMAIN store' : store'[v] = store[v]
            /\ lastCall'.removed = n - Cardinality(DOMAIN store')]_vars

(* C2: load_artifact never raises, and returns (None, None) whenever the    *)
(* blob is missing or unreadable.                                           *)
C2_LoadNeverRaises ==
    lastCall.op = "load_artifact" =>
        LET dir == get_version_dir(store, lastCall.version)
            noBlob == \/ dir = NoVersion
                      \/ store[dir].blobs[lastCall.name] \in {Absent, Corrupt}
        IN  /\ lastCall.result.outcome = "return"
            /\ noBlob => lastCall.result.obj = None /\ lastCall.result.meta = None

(* C3: every create_version returns an identifier that named no version     *)
(* before the call, whose directory is empty when the call returns, and     *)
(* that sorts after every version that existed before.                      *)
C3_CreateVersionFresh ==
    [][lastCall'.op = "create_version" =>
        /\ lastCall'.ret \notin DOMAIN store
        /\ store'[lastCall'.ret] = EmptyDir
        /\ \A v \in DOMAIN store : LexLess(v, lastCall'.ret)]_vars

(* C4: two train_all runs never save artifacts or a manifest into the same  *)
(* version directory.                                                       *)
C4_RunsWriteDistinctVersions ==
    \A r1, r2 \in Runs, v \in AllVersions :
        (<<r1, v>> \in wrote /\ <<r2, v>> \in wrote) => r1 = r2

(* C5: a blob, sidecar or manifest that has been written is never changed   *)
(* or replaced afterwards; a version is altered only by being deleted whole *)
(* by cleanup_old_versions.                                                 *)
C5_VersionsImmutable ==
    [][\A v \in DOMAIN store :
        /\ v \notin DOMAIN store' => lastCall'.op = "cleanup_old_versions"
        /\ v \in DOMAIN store' =>
            /\ \A n \in ArtifactNames :
                /\ store[v].blobs[n] # Absent => store'[v].blobs[n] = store[v].blobs[n]
                /\ store[v].metas[n] # Absent => store'[v].metas[n] = store[v].metas[n]
            /\ store[v].manifest # Absent => store'[v].manifest = store[v].manifest]_vars

(* C6: predict and score fail with the not-trained error and return no      *)
(* results on an instance that has seen neither a successful train nor a    *)
(* load_state of a trained state, whatever it was constructed with.         *)
C6_NotTrainedBeforeTraining ==
    /\ (out.op = "AnomalyService.score" /\ ~anomReady) =>
            out.outcome = "NotTrained" /\ out.results = << >>
    /\ (out.op = "CategoryService.predict" /\ ~catReady) =>
            out.outcome = "NotTrained" /\ out.results = << >>

C6_Witness ==
    \/ /\ out.op = "AnomalyService.score" /\ ~anomReady
       /\ anom.model.fitted /\ out.outcome = "NotTrained"
    \/ /\ out.op = "CategoryService.predict" /\ ~catReady
       /\ cat.model.fitted /\ out.outcome = "NotTrained"

(* C7: train fails with the insufficient-data error when fewer than 10      *)
(* rows survive its filter (labelled rows, DEBIT rows), and a call that     *)
(* fails this way leaves every field of the instance as it was.             *)
C7_InsufficientDataLeavesInstance ==
    [][/\ out'.op = "AnomalyService.train" =>
            /\ out'.usable < 10 => out'.outcome = "InsufficientData"
            /\ out'.outcome = "InsufficientData" => anom' = anom
       /\ out'.op = "CategoryService.train" =>
            /\ out'.usable < 10 => out'.outcome = "InsufficientData"
            /\ out'.outcome = "InsufficientData" => cat' = cat]_vars

C7_Witness ==
    /\ out.op = "CategoryService.train"
    /\ out.outcome = "InsufficientData"
    /\ out.usable = 9 /\ out.dropped = 1
    /\ cat_is_trained(cat)

(* C8: a trained scorer gives every record whose id is in ignoreIds or      *)
(* whose direction is CREDIT score 0.0 and label NORMAL without consulting  *)
(* the outlier model; the other records of the batch get the score the      *)
(* model's answer for them maps to.                                         *)
C8_ShortCircuit ==
    out.op = "AnomalyService.score" =>
        /\ out.outcome = "return"
        /\ Len(out.results) = Len(scoreIn.df)
        /\ \A i \in 1..Len(scoreIn.df) :
            LET row == scoreIn.df[i]
                short == Str(row.id) \in scoreIn.ignore_ids \/ row.direction = "CREDIT"
            IN  /\ short => /\ out.results[i].score = 0
                            /\ out.results[i].label = "NORMAL"
                            /\ ~out.consulted[i]
                /\ ~short => /\ out.consulted[i]
                             /\ out.results[i].score =
                                    Clip(50 - scoreIn.decisions[i], 0, 100)

C8_Witness ==
    /\ out.op = "AnomalyService.score"
    /\ Len(scoreIn.df) = 2
    /\ scoreIn.df[1].direction = "CREDIT" /\ scoreIn.df[1].amount = 5000
    /\ scoreIn.decisions[1] = -60
    /\ out.results[1].score = 0 /\ ~out.consulted[1]
    /\ scoreIn.df[2].direction = "DEBIT" /\ Str(scoreIn.df[2].id) \notin scoreIn.ignore_ids
    /\ out.results[2].score = 100 /\ out.consulted[2]

(* C9: every result of score has a score in [0,1] and a label that is a     *)
(* function of the score: SEVERE iff score >= 0.8, SUSPICIOUS iff           *)
(* 0.6 <= score < 0.8, NORMAL iff score < 0.6; the severity phrase that     *)
(* opens the notes of a scored record agrees with the label.                *)
C9_LabelFromScore ==
    out.op = "AnomalyService.score" =>
        \A i \in 1..Len(out.results) :
            LET r == out.results[i]
            IN  /\ r.score \in 0..100
                /\ r.label = "SEVERE" <=> r.score >= 80
                /\ r.label = "SUSPICIOUS" <=> (r.score >= 60 /\ r.score < 80)
                /\ r.label = "NORMAL" <=> r.score < 60
                /\ Head(r.notes) = "Highly unusual transaction" => r.label = "SEVERE"
                /\ Head(r.notes) = "Moderately unusual transaction" =>
                        r.label = "SUSPICIOUS"
                /\ Head(r.notes) = "Transaction appears normal" => r.label = "NORMAL"
                /\ out.consulted[i] =>
                        Head(r.notes) \in {"Highly unusual transaction",
                                           "Moderately unusual transaction",
                                           "Transaction appears normal"}

C9_Witness ==
    /\ out.op = "AnomalyService.score"
    /\ Len(out.results) = 2
    /\ out.results[1].score = 80 /\ out.results[1].label = "SEVERE"
    /\ out.results[2].score = 60 /\ out.results[2].label = "SUSPICIOUS"

(* C10: once is_trained is true on an AnomalyService instance it stays true *)
(* under every later train, score, get_state and load_state call on that    *)
(* instance.                                                                *)
C10_TrainedForever ==
    [][(anom_is_trained(anom) /\ out'.op # "AnomalyService") =>
            anom_is_trained(anom')]_vars

(* C10, amended: once is_trained is true it stays true under every later    *)
(* train (successful or failing), score and get_state call and under every  *)
(* load_state of a state whose trained flag is true; load_state of a state  *)
(* whose trained flag is false makes is_trained false again.                *)
C10_TrainedUntilUntrainedStateLoaded ==
    [][(anom_is_trained(anom) /\ out'.op # "AnomalyService") =>
            IF out'.op = "AnomalyService.load_state" /\ ~out'.trained
            THEN ~anom_is_trained(anom')
            ELSE anom_is_trained(anom')]_vars

C10_Witness ==
    /\ out.op = "AnomalyService.train"
    /\ out.outcome = "raise"
    /\ anom_is_trained(anom)
(* C11: after every successful train the category (merchant) table has an   *)
(* entry for a category (merchant) exactly when at least 3 DEBIT training   *)
(* rows carry it, the entry's count is that number of rows, the global      *)
(* baseline exists, and no entry of an earlier training run is retained.    *)
C11_BaselineEntries ==
    (out.op = "AnomalyService.train" /\ out.outcome = "ok") =>
        LET rows(field, key) ==
                SumOver(out.debit, {c \in Cells : c[field] = key})
            table(field) ==
                IF field = 1 THEN anom.category_stats ELSE anom.merchant_stats
            keys(field) == IF field = 1 THEN Categories ELSE Merchants
        IN  /\ \A field \in {1, 2} :
                /\ DOMAIN table(field) \subseteq keys(field) \ {Missing}
                /\ \A key \in keys(field) \ {Missing} :
                    /\ key \in DOMAIN table(field) <=> rows(field, key) >= 3
                    /\ key \in DOMAIN table(field) =>
                            table(field)[key].count = rows(field, key)
            /\ "mean" \in DOMAIN anom.global_stats

C11_Witness ==
    /\ out.op = "AnomalyService.train" /\ out.outcome = "ok"
    /\ out.dropped = 1
    /\ "Groceries" \in out.before.category
    /\ "Groceries" \notin DOMAIN anom.category_stats
    /\ SumOver(out.debit, {c \in Cells : c[1] = "Groceries"}) = 2
    /\ "Tesco" \in DOMAIN anom.merchant_stats
    /\ anom.merchant_stats["Tesco"].count = 3

(* C12: for every scored record why.baseline is the mean of the category    *)
(* entry when the record's category has one, else of the merchant entry     *)
(* when its merchant has one, else the global mean; why.residual is amount  *)
(* minus that baseline; the provenance phrase of the notes names that same  *)
(* table and the sample count supporting it.                                *)
C12_BaselineChoice ==
    (out.op = "AnomalyService.score" /\ out.outcome = "return") =>
        \A i \in 1..Len(out.results) :
            out.consulted[i] =>
                LET row == scoreIn.df[i]
                    r == out.results[i]
                    provenance == r.notes[Len(r.notes)]
                    hasCategory == row.category \in DOMAIN anom.category_stats
                    hasMerchant == row.merchant \in DOMAIN anom.merchant_stats
                IN  /\ r.residual = row.amount - r.baseline
                    /\ "count" \in DOMAIN provenance
                    /\ IF hasCategory
                         THEN /\ r.baseline = anom.category_stats[row.category].mean
                              /\ provenance.phrase = "Based on {} similar {} transactions"
                              /\ provenance.of = row.category
                              /\ provenance.count =
                                    anom.category_stats[row.category].count
                       ELSE IF hasMerchant
                         THEN /\ r.baseline = anom.merchant_stats[row.merchant].mean
                              /\ provenance.phrase = "Based on {} transactions from {}"
                              /\ provenance.of = row.merchant
                              /\ provenance.count =
                                    anom.merchant_stats[row.merchant].count
                       ELSE /\ r.baseline = anom.global_stats["mean"]
                            /\ provenance.phrase =
                                "Using global baseline (limited category/merchant data)"
(* C13: whatever the index, the query, the hints and top_k >= 0, search     *)
(* returns at most min(top_k, number of canonical names) results, every     *)
(* score lies in [0,1], the scores do not increase along the list, and      *)
(* every canonical of the list is one of the canonical names.               *)
C13_SearchResults ==
    (out.op = "MerchantService.search" /\ out.outcome = "return") =>
        /\ Len(out.results) <= Min(out.top_k, Len(merch.canonical_merchants))
        /\ \A n \in 1..Len(out.results) :
            /\ out.results[n].score >= 0 /\ out.results[n].score <= 100
            /\ out.results[n].canonical \in Range(merch.canonical_merchants)
            /\ n > 1 => out.results[n].score <= out.results[n - 1].score

C13_Witness ==
    /\ out.op = "MerchantService.search" /\ out.outcome = "return"
    /\ Len(merch.canonical_merchants) = 2 /\ out.top_k = 2
    /\ Len(out.results) = 2
    /\ out.results[1].score = 100
    /\ out.results[2].score = 0

C15_IndexMatchesNames ==
    (out.op \in {"MerchantService.build_index", "MerchantService.load_state"}
     /\ out.outcome = "return") =>
        /\ Len(merch.canonical_merchants) = Len(merch.embeddings.rows)
        /\ merch.index.present => merch.index.rows = merch.embeddings.rows

\* the strategy a saved EmbeddingService state records
RecordedStrategy(state) ==
    IF state.using_tfidf THEN "tfidf"
    ELSE IF state.embedding_dim # 0 THEN "semantic"
    ELSE "none"

\* C16: once an initialize has succeeded on an engine, every later call
\* leaves the engine with the strategy it had (embed dispatches to the same
\* branch), whatever further initialize calls happen and whatever the
\* loading of the semantic model does; an engine restored from a saved
\* state dispatches to the strategy that state records.
C16_StrategyFixed ==
    /\ out.op \in {"EmbeddingService.initialize", "EmbeddingService.embed",
                   "EmbeddingService.fit_tfidf"}
       /\ Strategy(out.before) # "none"
       => Strategy(emb) = Strategy(out.before)
    /\ out.op = "EmbeddingService.from_state"
       => Strategy(emb) = RecordedStrategy(out.state)

\* C17: initialize selects the semantic model whenever it can be loaded and
\* selects the frequency vectorizer only when it cannot; it returns False
\* only when neither was selected, leaving the engine as it was.  On an
\* engine on which no initialize has succeeded, embed of a non-empty list
\* fails with the engine-unavailable error.
C17_InitializeOrder ==
    /\ out.op = "EmbeddingService.initialize"
       => /\ (libs.st /\ out.load = "ok")
             => /\ out.ret
                /\ emb.model # None
                /\ emb.using_tfidf = out.before.using_tfidf
                /\ emb.tfidf = out.before.tfidf
          /\ (emb.using_tfidf /\ ~out.before.using_tfidf)
             => ~(libs.st /\ out.load = "ok")
          /\ ~(libs.st /\ out.load = "ok")
             => /\ emb.model = out.before.model
                /\ out.ret = (emb.use_tfidf_fallback /\ libs.tfidf)
                /\ out.ret => emb.using_tfidf
          /\ ~out.ret => emb = out.before
    /\ (out.op = "EmbeddingService.embed" /\ ~embReady /\ out.texts # << >>)
       => /\ out.outcome = "EngineUnavailable"
          /\ out.vectors = << >>

\* an engine built with a vectorizer, on which no initialize has succeeded,
\* is asked to embed a text and refuses
C17_Witness ==
    /\ out.op = "EmbeddingService.embed"
    /\ ~embReady
    /\ out.texts # << >>
    /\ emb.tfidf.exists
    /\ out.outcome = "EngineUnavailable"

\* C19: an EmbeddingService rebuilt by from_state from get_state(x), with no
\* further call on it, is ready exactly when x is, dispatches to the same
\* strategy, has the same dimension, and embeds every list of texts as x
\* does.
C19_RoundTrip ==
    out.op = "EmbeddingService.from_state"
    => /\ is_initialized(emb) = is_initialized(out.before)
       /\ Strategy(emb) = Strategy(out.before)
       /\ embedding_dim(emb) = embedding_dim(out.before)
       /\ \A texts \in TextLists :
            /\ embed(emb, texts).outcome = embed(out.before, texts).outcome
            /\ embed(emb, texts).vectors = embed(out.before, texts).vectors

\* C18: no request served by the loaded components changes a field of any
\* of them: after normalise (search, embed), predict or score the engine
\* with its vectorizer, the merchant names, embeddings and index, the
\* classifier and the scorer with its baselines are what they were before
\* the call.
C18_ScoringLeavesShared ==
    out.op \in ServeOps => Shared = out.shared

\* the artifact of a component is there to be loaded
Loadable(name) ==
    /\ store # << >>
    /\ store[ServedVersion].blobs[name] \in Trainings
    /\ store[ServedVersion].metas[name] \notin {Corrupt}

\* C20: after load_models every component whose own artifact is there to be
\* loaded is registered, whatever the condition of the other artifacts; the
\* merchant matcher is registered only together with the engine.
C20_PartialLoad ==
    out.op # "none"
    => /\ Loadable("embedding_service") => services.embedding
       /\ Loadable("merchant_service") /\ services.embedding => services.merchant
       /\ Loadable("category_service") => services.category
       /\ Loadable("anomaly_service") => services.anomaly
       /\ services.merchant => services.embedding

\* C22: after a successful train every entry of the category table and of
\* the merchant table, and the global baseline, holds mean, std and count,
\* and the global count is the number of DEBIT rows trained on.
C22_TablesHoldCount ==
    (out.op = "AnomalyService.train" /\ out.outcome = "ok") =>
        /\ \A key \in DOMAIN anom.category_stats :
            {"mean", "std", "count"} \subseteq DOMAIN anom.category_stats[key]
        /\ \A key \in DOMAIN anom.merchant_stats :
            {"mean", "std", "count"} \subseteq DOMAIN anom.merchant_stats[key]
        /\ {"mean", "std", "count"} \subseteq DOMAIN anom.global_stats
        /\ anom.global_stats["count"] = out.usable

\* C23: after a successful train the std of the global baseline and of
\* every category and merchant entry is at least 1.0 (100 hundredths).
C23_StdFloored ==
    (out.op = "AnomalyService.train" /\ out.outcome = "ok") =>
        /\ anom.global_stats["std"] >= StdFloor
        /\ \A key \in DOMAIN anom.category_stats :
            anom.category_stats[key].std >= StdFloor
        /\ \A key \in DOMAIN anom.merchant_stats :
            anom.merchant_stats[key].std >= StdFloor

\* C24: in the list search returns, of two rows with the same similarity to
\* the query the one earlier in the canonical list comes first, and a row
\* left out by the cut at top_k with the similarity of a returned row comes
\* later in the canonical list than that row.
C24_TiesInIndexOrder ==
    (out.op = "MerchantService.search" /\ out.outcome = "return") =>
        /\ \A n \in 1..Len(out.indices), k \in 1..Len(out.indices) :
            (n < k /\ out.similarities[out.indices[n]]
                        = out.similarities[out.indices[k]])
            => out.indices[n] < out.indices[k]
        /\ \A n \in 1..Len(out.indices), row \in 1..Len(out.similarities) :
            (row \notin Range(out.indices)
               /\ out.similarities[row] = out.similarities[out.indices[n]])
            => out.indices[n] < row

\* C25: for every row of probabilities and every top_k >= 1, top has
\* min(top_k, number of classes) entries of non-increasing probability,
\* classes of equal probability come in ascending class index, chosen is
\* top[1].category and confidence is top[1].prob.
C25_TopSorted ==
    out.op = "CategoryService.predict" =>
        /\ Len(out.top) = Min(scoreIn.top_k, Len(scoreIn.proba))
        /\ \A n \in 1..Len(out.top), k \in 1..Len(out.top) :
            n < k => /\ out.top[n].prob >= out.top[k].prob
                     /\ out.top[n].prob = out.top[k].prob
                        => out.top_indices[n] < out.top_indices[k]
        /\ \A n \in 1..Len(out.top) :
            /\ out.top[n].category = ClassNames[out.top_indices[n]]
            /\ out.top[n].prob = scoreIn.proba[out.top_indices[n]]
        /\ out.chosen = out.top[1].category
        /\ out.confidence = out.top[1].prob

\* C26: whenever the CategoryService instance is trained, its model and the
\* vectorizer of its feature extractor are fitted and come from the same
\* data (the model takes the columns that extractor produces).
C26_ModelMatchesExtractor ==
    (subject = "CategoryService" /\ cat_is_trained(cat)) =>
        /\ cat.feature_extractor.exists
        /\ cat.model.fitted
        /\ cat.feature_extractor.tfidf.fitted
        /\ cat.feature_extractor.tfidf.data = cat.model.data

\* C28: right after a save_artifact of a name under a version, load_artifact of
\* that name and version returns the object of that save and the metadata of
\* that save; when the save was given no metadata, or an empty dict, the
\* metadata returned is None.
C28_LoadReturnsLastSave ==
    lastCall.op = "save_artifact" =>
        LET got == load_artifact(store, lastCall.name, lastCall.version)
        IN  /\ got.outcome = "return"
            /\ got.obj = lastCall.obj
            /\ got.meta = IF lastCall.metadata \in {None, "empty"}
                          THEN None ELSE lastCall.metadata

\* C29: load_all is all-or-nothing. When it returns False the manager holds
\* the artifacts and the current_version it held before the call; when it
\* returns True every artifact get returns is the blob of that name in the
\* directory of the version current_version names.
C29_LoadAllOrNothing ==
    lastCall.op = "load_all" =>
        /\ ~lastCall.ret => manager = lastCall.held
        /\ lastCall.ret =>
            /\ manager.current_version \in DOMAIN store
            /\ \A n \in ArtifactNames :
                get(manager, n) # None
                    => get(manager, n) = store[manager.current_version].blobs[n]

\* C30: a score call that returns gives exactly one result per row of the
\* batch, in the order of the rows, and the id of the i-th result is str of
\* the id of the i-th row; ignored and CREDIT rows are neither dropped nor
\* moved.
C30_OneResultPerRow ==
    (out.op = "AnomalyService.score" /\ out.outcome = "return") =>
        /\ Len(out.results) = Len(scoreIn.df)
        /\ \A i \in 1..Len(scoreIn.df) : out.results[i].id = Str(scoreIn.df[i].id)

\* a returned batch of rows with different ids where a row was short-circuited
\* ahead of a row that went to the model
C30_Witness ==
    /\ out.op = "AnomalyService.score"
    /\ out.outcome = "return"
    /\ \E i, j \in 1..Len(scoreIn.df) :
        /\ i < j
        /\ Str(scoreIn.df[i].id) # Str(scoreIn.df[j].id)
        /\ ~out.consulted[i]
        /\ out.consulted[j]
        /\ out.results[i].id = Str(scoreIn.df[i].id)

\* a train_all run that went through all its steps: it saved its artifacts
\* and its manifest and returned
Completed(r) == pc[r] = "done"

\* C27: when load_models runs after a train_all run has completed, the
\* version it loads is the version of a completed run: a run that stopped
\* after create_version, or that is still going, does not take its place.
C27_LoadsCompletedVersion ==
    [][(out.op = "none" /\ out'.op = "load_models" /\ \E r \in Runs : Completed(r))
        => \E r \in Runs : Completed(r) /\ services'.version = runVersion[r]]_vars

====
